---- MODULE Spec2Model ----
(***************************************************************************)
(* Model of the map component of esgoto-app (src/src/components/filters.js *)
(* lines 239-667), of the location search (lines 134-190) and of the API   *)
(* service they use (src/unnamed/part_000).                                *)
(*                                                                         *)
(* One state of the model is the state of the page between two turns of    *)
(* the event loop.  One action is one turn: a Leaflet event handler, an    *)
(* exported function called by the page, or the continuation of an async   *)
(* function that runs when the promise it awaits settles.                  *)
(***************************************************************************)
EXTENDS Integers, Sequences, FiniteSets, TLC

VARIABLES
    zoom,                   \* map.getZoom()
    viewport,               \* map.getBounds()
    currentDisease,         \* filters.js:255
    geoLayer,               \* filters.js:252, NoLayer for null
    stateLayersOnMap,       \* state-level overlays currently added to the map
    geoInFlight,            \* loadGeoJSON calls suspended at filters.js:519
    geoLayerStyle,          \* how the layers of geoLayer are styled
    lastCapitalData,        \* filters.js:257
    currentMapLayer,        \* filters.js:256
    mapLoading,             \* what the #map-loading element shows
    loadedMunicipioLayers,  \* filters.js:261, ufId -> layer
    loadingStates,          \* filters.js:262
    municipioAlertCache,    \* filters.js:263, ufId -> alertMap
    municipioLayersOnMap,   \* municipality layers currently added to the map
    inFlight,               \* loadMunicipioLayer calls suspended at filters.js:364
    fetches,                \* the fetches issued during the last turn
    removed,                \* the municipality layers the last turn took
                            \* off the map
    settled,                \* the unit whose load settled in the last turn
    lastOp,                 \* the handler that ran in the last turn
    cache,                  \* part_000:7, the Map of the API service
    producers,              \* cachedFetch calls suspended at part_000:15
    networkCalls,           \* how many producers have been invoked
    apiLast,                \* what the last turn of the API service did
    input,                  \* the arguments of a pure function
    output,                 \* what the function returned for them
    search,                 \* the closure of initSearch and its result panel
    tracker                 \* the selectors of initTrackerSelectors

vars == <<zoom, viewport, currentDisease, geoLayer, stateLayersOnMap,
          geoInFlight, geoLayerStyle, lastCapitalData, currentMapLayer,
          mapLoading, loadedMunicipioLayers, loadingStates,
          municipioAlertCache, municipioLayersOnMap, inFlight, fetches,
          removed, settled, lastOp, cache, producers, networkCalls,
          apiLast, input, output, search, tracker>>

apiVars == <<cache, producers, networkCalls, apiLast>>

pureVars == <<input, output>>

----------------------------------------------------------------------------
(* Bounds of the model *)

\* most layer objects alive at once (one more than the curated units drawn)
MaxLayers == 3
\* most loadGeoJSON calls suspended at once
MaxGeoInFlight == 1
\* most loadGeoJSON calls suspended at once when the page drives the state
\* overlay
MaxGeoLoads == 2
\* most loads of the search index suspended at once
MaxSearchLoads == 2
\* most producers the API service invokes
MaxNetworkCalls == 3
\* most characters of a string component of a cache key
MaxComponentLen == 2
\* most records of an upstream alert series
MaxSeries == 3

----------------------------------------------------------------------------
(* Constants of the program *)

MUNICIPIO_ZOOM_THRESHOLD == 6

UF_IDS == <<11, 12, 13, 14, 15, 16, 17, 21, 22, 23, 24, 25, 26, 27, 28, 29,
            31, 32, 33, 35, 41, 42, 43, 50, 51, 52, 53>>

\* the diseases of getDiseaseInfo
Diseases == {"dengue", "zika"}

\* The curated table of the API service: ufId -> geocodes of its major
\* cities.  Rondônia (11) stands for a unit without an entry.
MAJOR_CITIES_BY_UF ==
    [u \in {31, 33, 35} |->
        CASE u = 31 -> <<3106200>>
          [] u = 33 -> <<3304557>>
          [] u = 35 -> <<3550308, 3509502>>]

\* the zoom levels the user moves between: initMap starts at 4
InitialZoom == 4
Zooms == {4, 6}

----------------------------------------------------------------------------
(* Small helpers on the objects of the program *)

Range(f) == {f[x] : x \in DOMAIN f}

EmptyObject == [x \in {} |-> 0]

\* obj[key] = value
Put(obj, key, value) ==
    [x \in DOMAIN obj \cup {key} |-> IF x = key THEN value ELSE obj[x]]

\* delete obj[key]
Delete(obj, key) == [x \in DOMAIN obj \ {key} |-> obj[x]]

RemoveAt(s, i) == [j \in 1..(Len(s) - 1) |-> IF j < i THEN s[j] ELSE s[j + 1]]

Includes(s, x) == \E i \in 1..Len(s) : s[i] = x

\* no unit
NoUnit == 0

\* undefined
NoValue == 0

\* geoLayer = null
NoLayer == [id |-> 0, capitalData |-> "none", mapLayer |-> "none"]

----------------------------------------------------------------------------
(* The national geometry and the viewport *)

\* A codarea is a string of the GeoJSON; a character is a digit 0..9 or
\* NonDigit.  NaN stands for the result of Number() on a non-numeric string.
NonDigit == 10
NaN == -1

RECURSIVE DecimalValue(_)
DecimalValue(str) ==
    IF Len(str) = 0 THEN 0
    ELSE 10 * DecimalValue(SubSeq(str, 1, Len(str) - 1)) + str[Len(str)]

\* Number(feature.properties.codarea)
Number(str) ==
    IF \E i \in 1..Len(str) : str[i] = NonDigit THEN NaN
    ELSE DecimalValue(str)

Box(s, w, n, e) == [south |-> s, west |-> w, north |-> n, east |-> e]

\* LatLngBounds.intersects of the mapping library: the boxes share a point
Intersects(a, b) ==
    /\ b.north >= a.south
    /\ b.south <= a.north
    /\ b.east >= a.west
    /\ b.west <= a.east

\* The features fetchBrazilGeoJSON returns, as the layers of geoLayer:
\* São Paulo (35) drawn as two features, Rio de Janeiro (33), Rondônia (11),
\* a code outside the national enumeration, a feature whose layer has no
\* getBounds, one whose getBounds throws, and a non-numeric code.
BrazilGeoJSON ==
    << [codarea |-> <<3, 5>>, bounds |-> "ok", box |-> Box(0, 0, 1, 1)],
       [codarea |-> <<3, 3>>, bounds |-> "ok", box |-> Box(0, 2, 1, 3)],
       [codarea |-> <<3, 5>>, bounds |-> "ok", box |-> Box(2, 0, 3, 1)],
       [codarea |-> <<1, 1>>, bounds |-> "ok", box |-> Box(0, 0, 1, 1)],
       [codarea |-> <<9, 9>>, bounds |-> "ok", box |-> Box(0, 2, 1, 3)],
       [codarea |-> <<3, 1>>, bounds |-> "missing", box |-> Box(0, 0, 3, 3)],
       [codarea |-> <<3, 2>>, bounds |-> "throws", box |-> Box(0, 0, 3, 3)],
       [codarea |-> <<3, NonDigit>>, bounds |-> "ok", box |-> Box(0, 0, 3, 3)] >>

\* the bounds the user can bring into view
WholeCountry == Box(0, 0, 3, 3)
Viewports == {WholeCountry, Box(0, 0, 3, 1), Box(5, 5, 6, 6)}

RECURSIVE VisibleFrom(_, _, _)
VisibleFrom(layers, i, bounds) ==
    IF i > Len(layers) THEN <<>>
    ELSE LET layer == layers[i]
             ufId == Number(layer.codarea)
             rest == VisibleFrom(layers, i + 1, bounds)
         IN IF /\ layer.bounds = "ok"
               /\ Intersects(bounds, layer.box)
               /\ Includes(UF_IDS, ufId)
            THEN <<ufId>> \o rest
            ELSE rest

\* getVisibleUFs without the test of geoLayer
getVisibleUFs_withoutLayer(gl, bounds) ==
    VisibleFrom(BrazilGeoJSON, 1, bounds)

\* getVisibleUFs(bounds): filters.js:332-350
getVisibleUFs(gl, bounds) ==
    IF gl = NoLayer THEN <<>> ELSE VisibleFrom(BrazilGeoJSON, 1, bounds)

----------------------------------------------------------------------------
(* The municipality layer manager.  The handlers below are functions of   *)
(* the manager's state m, a record of the module-level objects of         *)
(* filters.js plus what the handler did to the map and the network.       *)

Manager ==
    [loaded |-> loadedMunicipioLayers, loading |-> loadingStates,
     cache |-> municipioAlertCache, onMap |-> municipioLayersOnMap,
     inFlight |-> inFlight, fetches |-> <<>>, removed |-> {},
     settled |-> NoUnit]

\* fetchStateGeoJSON(ufId) and fetchBulkMunicipioAlerts(cities, disease)
GeometryFetch(ufId) ==
    [kind |-> "geometry", uf |-> ufId, disease |-> "none"]
AlertsFetch(ufId, disease) ==
    [kind |-> "alerts", uf |-> ufId, disease |-> disease]

\* loadMunicipioLayer without the test of loadingStates
loadMunicipioLayer_ignoresLoading(m, ufId, disease) ==
    IF ufId \in DOMAIN m.loaded THEN m
    ELSE IF ufId \notin DOMAIN MAJOR_CITIES_BY_UF THEN m
    ELSE [m EXCEPT
            !.loading = @ \cup {ufId},
            !.inFlight = Append(@, [uf |-> ufId, disease |-> disease]),
            !.fetches = @ \o <<GeometryFetch(ufId),
                               AlertsFetch(ufId, disease)>>]

\* loadMunicipioLayer without the test of loadedMunicipioLayers
loadMunicipioLayer_ignoresLoaded(m, ufId, disease) ==
    IF ufId \in m.loading THEN m
    ELSE IF ufId \notin DOMAIN MAJOR_CITIES_BY_UF THEN m
    ELSE [m EXCEPT
            !.loading = @ \cup {ufId},
            !.inFlight = Append(@, [uf |-> ufId, disease |-> disease]),
            !.fetches = @ \o <<GeometryFetch(ufId),
                               AlertsFetch(ufId, disease)>>]

\* loadMunicipioLayer that enters loadingStates only after its await
loadMunicipioLayer_addsLate(m, ufId, disease) ==
    IF ufId \in DOMAIN m.loaded \/ ufId \in m.loading THEN m
    ELSE IF ufId \notin DOMAIN MAJOR_CITIES_BY_UF THEN m
    ELSE [m EXCEPT
            !.inFlight = Append(@, [uf |-> ufId, disease |-> disease]),
            !.fetches = @ \o <<GeometryFetch(ufId),
                               AlertsFetch(ufId, disease)>>]

\* loadMunicipioLayer without the test of MAJOR_CITIES_BY_UF
loadMunicipioLayer_ignoresCurated(m, ufId, disease) ==
    IF ufId \in DOMAIN m.loaded \/ ufId \in m.loading THEN m
    ELSE [m EXCEPT
            !.loading = @ \cup {ufId},
            !.inFlight = Append(@, [uf |-> ufId, disease |-> disease]),
            !.fetches = @ \o <<GeometryFetch(ufId),
                               AlertsFetch(ufId, disease)>>]

\* loadMunicipioLayer up to its await: the guards, the LoadingSet entry and
\* the two fetches, the alert fetch for the disease current at the call
loadMunicipioLayer(m, ufId, disease) ==
    IF ufId \in DOMAIN m.loaded \/ ufId \in m.loading THEN m
    ELSE IF ufId \notin DOMAIN MAJOR_CITIES_BY_UF THEN m
    ELSE [m EXCEPT
            !.loading = @ \cup {ufId},
            !.inFlight = Append(@, [uf |-> ufId, disease |-> disease]),
            !.fetches = @ \o <<GeometryFetch(ufId),
                               AlertsFetch(ufId, disease)>>]

\* visibleUFs.forEach(ufId => loadMunicipioLayer(ufId))
RECURSIVE ForEachLoad(_, _, _, _)
ForEachLoad(m, ufs, i, disease) ==
    IF i > Len(ufs) THEN m
    ELSE ForEachLoad(loadMunicipioLayer(m, ufs[i], disease), ufs, i + 1,
                     disease)

\* removeMunicipioLayers that forgets the layers without map.removeLayer
removeMunicipioLayers_keepsOnMap(m) ==
    [m EXCEPT !.loaded = EmptyObject]

removeMunicipioLayers(m) ==
    [m EXCEPT !.onMap = @ \ Range(m.loaded),
              !.removed = @ \cup (m.onMap \cap Range(m.loaded)),
              !.loaded = EmptyObject]

\* handleZoomChange, for the zoom and bounds the map reports
handleZoomChange(m, z, bounds, gl, disease) ==
    IF z >= MUNICIPIO_ZOOM_THRESHOLD
    THEN ForEachLoad(m, getVisibleUFs(gl, bounds), 1, disease)
    ELSE removeMunicipioLayers(m)

\* the loop of setMapDisease without the delete of municipioAlertCache[ufId]
ClearLoaded_keepsCache(m) ==
    [m EXCEPT !.onMap = @ \ Range(m.loaded),
              !.removed = @ \cup (m.onMap \cap Range(m.loaded)),
              !.loaded = EmptyObject]

\* the loop of setMapDisease over Object.keys(loadedMunicipioLayers)
ClearLoaded(m) ==
    [m EXCEPT !.onMap = @ \ Range(m.loaded),
              !.removed = @ \cup (m.onMap \cap Range(m.loaded)),
              !.loaded = EmptyObject,
              !.cache = [u \in DOMAIN m.cache \ DOMAIN m.loaded |-> m.cache[u]]]

\* setMapDisease that reloads only above the threshold
setMapDisease_aboveThreshold(m, disease, z, bounds, gl) ==
    IF z > MUNICIPIO_ZOOM_THRESHOLD
    THEN handleZoomChange(ClearLoaded(m), z, bounds, gl, disease)
    ELSE ClearLoaded(m)

setMapDisease(m, disease, z, bounds, gl) ==
    IF z >= MUNICIPIO_ZOOM_THRESHOLD
    THEN handleZoomChange(ClearLoaded(m), z, bounds, gl, disease)
    ELSE ClearLoaded(m)

\* a layer object that no live reference names yet
FreshLayerId(m) ==
    CHOOSE n \in 1..(MaxLayers + 1) :
        /\ \A l \in m.onMap \cup Range(m.loaded) : l.id # n
        /\ \A k \in 1..(n - 1) :
              \E l \in m.onMap \cup Range(m.loaded) : l.id = k

\* loadMunicipioLayer whose success path leaves the unit in loadingStates
loadMunicipioLayerResume_keepsLoading(m, i) ==
    LET load == m.inFlight[i]
        alertMap == [disease |-> load.disease]
        municipioLayer == [id |-> FreshLayerId(m), uf |-> load.uf,
                           disease |-> load.disease]
    IN [m EXCEPT
          !.cache = Put(@, load.uf, alertMap),
          !.onMap = @ \cup {municipioLayer},
          !.loaded = Put(@, load.uf, municipioLayer),
          !.settled = load.uf,
          !.inFlight = RemoveAt(@, i)]

\* loadMunicipioLayer whose finally block empties loadingStates
loadMunicipioLayerResume_clearsLoading(m, i) ==
    LET load == m.inFlight[i]
        alertMap == [disease |-> load.disease]
        municipioLayer == [id |-> FreshLayerId(m), uf |-> load.uf,
                           disease |-> load.disease]
    IN [m EXCEPT
          !.cache = Put(@, load.uf, alertMap),
          !.onMap = @ \cup {municipioLayer},
          !.loaded = Put(@, load.uf, municipioLayer),
          !.loading = {},
          !.settled = load.uf,
          !.inFlight = RemoveAt(@, i)]

\* loadMunicipioLayer after its await, both fetches fulfilled: lines 369-431
\* and the finally block
loadMunicipioLayerResume(m, i) ==
    LET load == m.inFlight[i]
        alertMap == [disease |-> load.disease]
        municipioLayer == [id |-> FreshLayerId(m), uf |-> load.uf,
                           disease |-> load.disease]
    IN [m EXCEPT
          !.cache = Put(@, load.uf, alertMap),
          !.onMap = @ \cup {municipioLayer},
          !.loaded = Put(@, load.uf, municipioLayer),
          !.loading = @ \ {load.uf},
          !.settled = load.uf,
          !.inFlight = RemoveAt(@, i)]

\* loadMunicipioLayer without its finally block on the failure path
loadMunicipioLayerCatch_keepsLoading(m, i) ==
    [m EXCEPT !.settled = m.inFlight[i].uf,
              !.inFlight = RemoveAt(@, i)]

\* loadMunicipioLayer whose catch block starts the load again
loadMunicipioLayerCatch_retries(m, i) ==
    [m EXCEPT !.settled = m.inFlight[i].uf,
              !.fetches = @ \o <<GeometryFetch(m.inFlight[i].uf),
                                 AlertsFetch(m.inFlight[i].uf,
                                             m.inFlight[i].disease)>>]

\* loadMunicipioLayer whose finally block runs loadingStates.clear()
loadMunicipioLayerCatch_clearsAll(m, i) ==
    [m EXCEPT !.loading = {},
              !.settled = m.inFlight[i].uf,
              !.inFlight = RemoveAt(@, i)]

\* loadMunicipioLayer after its await, Promise.all rejected: the catch and
\* the finally block
loadMunicipioLayerCatch(m, i) ==
    [m EXCEPT !.loading = @ \ {m.inFlight[i].uf},
              !.settled = m.inFlight[i].uf,
              !.inFlight = RemoveAt(@, i)]

\* how handleZoomChange leaves the layers of geoLayer: setStyle with
\* fillOpacity 0.1 and weight 0.5 when zoomed in, resetStyle (the style
\* function of loadGeoJSON again) when zoomed out
StyleAfterZoomChange(gl, z) ==
    IF gl = NoLayer THEN "none"
    ELSE IF z >= MUNICIPIO_ZOOM_THRESHOLD THEN "faded" ELSE "data"

\* how L.geoJSON styles the layers it creates: the style function of
\* loadGeoJSON forces fillOpacity 0.1 when the map is zoomed in
StyleAtCreation(z) ==
    IF z >= MUNICIPIO_ZOOM_THRESHOLD THEN "dimmed" ELSE "data"

----------------------------------------------------------------------------
(* The turns of the event loop *)

\* the capital-city datasets the page passes to loadGeoJSON: the default []
\* and a national overview
CapitalData == {"empty", "overview"}

NationalFetch == [kind |-> "national", uf |-> 0, disease |-> "none"]

Commit(m) ==
    /\ loadedMunicipioLayers' = m.loaded
    /\ loadingStates' = m.loading
    /\ municipioAlertCache' = m.cache
    /\ municipioLayersOnMap' = m.onMap
    /\ inFlight' = m.inFlight
    /\ fetches' = m.fetches
    /\ removed' = m.removed
    /\ settled' = m.settled

geoVars == <<geoLayer, stateLayersOnMap, geoInFlight, lastCapitalData,
             currentMapLayer, mapLoading>>

\* the map component after initMap
MapInit ==
    /\ zoom = InitialZoom
    /\ viewport = WholeCountry
    /\ currentDisease = "dengue"
    /\ geoLayer = NoLayer
    /\ stateLayersOnMap = {}
    /\ geoInFlight = <<>>
    /\ geoLayerStyle = "none"
    /\ lastCapitalData = "empty"
    /\ currentMapLayer = "disease"
    /\ mapLoading = [content |-> "spinner", hidden |-> FALSE]
    /\ loadedMunicipioLayers = EmptyObject
    /\ loadingStates = {}
    /\ municipioAlertCache = EmptyObject
    /\ municipioLayersOnMap = {}
    /\ inFlight = <<>>
    /\ fetches = <<>>
    /\ removed = {}
    /\ settled = NoUnit
    /\ lastOp = "initMap"

\* the API service after its module has been evaluated
ApiInit ==
    /\ cache = EmptyObject
    /\ producers = <<>>
    /\ networkCalls = 0
    /\ apiLast = [op |-> "none", key |-> "none", promise |-> "none",
                  value |-> NoValue]

NoCall == [fn |-> "none", args |-> <<>>]

\* the function has not returned
NoOutput == [done |-> FALSE, value |-> NoValue]

\* no debounce timer is pending
NoTimer == [set |-> FALSE, query |-> <<>>]

\* the value of a property the page's markup sets and no code has written
\* yet; "true" and "false" are what the code writes
FromMarkup == "markup"

\* the tracker selectors after initTrackerSelectors: filters.js:25-37.  No
\* state is selected and the city selector is as the markup has it.
TrackerInit ==
    tracker = [state |-> NoUnit,
               city |-> [content |-> FromMarkup, uf |-> NoUnit],
               cityPicked |-> FALSE,
               cityDisabled |-> FromMarkup,
               addDisabled |-> FromMarkup,
               pending |-> <<>>,
               last |-> "initTrackerSelectors"]

\* the search box after initSearch: filters.js:135-139
SearchInit ==
    search = [allMunicipios |-> "null", panel |-> "hidden",
              timer |-> NoTimer, loads |-> <<>>, last |-> "initSearch",
              value |-> <<>>, shown |-> <<>>]

Init ==
    /\ MapInit
    /\ ApiInit
    /\ SearchInit
    /\ TrackerInit
    /\ input = NoCall
    /\ output = NoOutput

\* one run of handleZoomChange with the map at zoom z over bounds
Evaluate(z, bounds) ==
    /\ zoom' = z
    /\ viewport' = bounds
    /\ Commit(handleZoomChange(Manager, z, bounds, geoLayer, currentDisease))
    /\ geoLayerStyle' = StyleAfterZoomChange(geoLayer, z)
    /\ lastOp' = "handleZoomChange"
    /\ UNCHANGED <<currentDisease, geoVars, apiVars, pureVars, search, tracker>>

\* 'zoomend': the map has reached another zoom level
ZoomEnd(z, bounds) ==
    /\ z # zoom
    /\ Evaluate(z, bounds)

\* 'moveend': the map has stopped moving; it also follows every 'zoomend'
MoveEnd(bounds) ==
    Evaluate(zoom, bounds)

\* the page calls setMapDisease(disease)
SetMapDisease(disease) ==
    /\ currentDisease' = disease
    /\ Commit(setMapDisease(Manager, disease, zoom, viewport, geoLayer))
    /\ geoLayerStyle' =
          IF zoom >= MUNICIPIO_ZOOM_THRESHOLD
          THEN StyleAfterZoomChange(geoLayer, zoom)
          ELSE geoLayerStyle
    /\ lastOp' = "setMapDisease"
    /\ UNCHANGED <<zoom, viewport, geoVars, apiVars, pureVars, search, tracker>>

\* Promise.all of load i fulfils, both fetches having fulfilled, and
\* loadMunicipioLayer runs on to its end
PromiseAllFulfils(i) ==
    /\ i \in 1..Len(inFlight)
    /\ FreshLayerId(Manager) <= MaxLayers
    /\ Commit(loadMunicipioLayerResume(Manager, i))
    /\ lastOp' = "loadDone"
    /\ UNCHANGED <<zoom, viewport, currentDisease, geoVars, geoLayerStyle,
                   apiVars, pureVars, search, tracker>>

\* Promise.all of load i rejects, the fetch of that kind having rejected
\* first, and loadMunicipioLayer runs its catch and finally blocks
PromiseAllRejects(i, kind) ==
    /\ i \in 1..Len(inFlight)
    /\ kind \in {"geometry", "alerts"}
    /\ Commit(loadMunicipioLayerCatch(Manager, i))
    /\ lastOp' = "loadFailed"
    /\ UNCHANGED <<zoom, viewport, currentDisease, geoVars, geoLayerStyle,
                   apiVars, pureVars, search, tracker>>

municipioVars == <<loadedMunicipioLayers, loadingStates, municipioAlertCache,
                   municipioLayersOnMap, inFlight>>

mapVars == <<zoom, viewport, currentDisease, geoVars, geoLayerStyle,
             municipioVars, fetches, removed, settled, lastOp>>

\* loadGeoJSON(capitalData) up to its await: lines 515-519.  The request
\* cache of the API service has the national geometry from the first load
\* that succeeded on, which is from when geoLayer is set on.
loadGeoJSON(capitalData) ==
    /\ lastCapitalData' = capitalData
    /\ geoInFlight' = Append(geoInFlight, [capitalData |-> capitalData,
                                           cached |-> geoLayer # NoLayer])
    /\ fetches' = <<NationalFetch>>

\* the page calls loadGeoJSON(capitalData) with fewer than limit calls
\* suspended
LoadGeoJSONWithin(capitalData, limit) ==
    /\ Len(geoInFlight) < limit
    /\ loadGeoJSON(capitalData)
    /\ removed' = {}
    /\ settled' = NoUnit
    /\ lastOp' = "loadGeoJSON"
    /\ UNCHANGED <<zoom, viewport, currentDisease, geoLayer, stateLayersOnMap,
                   geoLayerStyle, currentMapLayer, mapLoading, municipioVars,
                   apiVars, pureVars, search, tracker>>

LoadGeoJSON(capitalData) == LoadGeoJSONWithin(capitalData, MaxGeoInFlight)

\* a layer object that no reference will name once geoLayer is reassigned
FreshStateLayerId(onMap) ==
    CHOOSE n \in 1..(Cardinality(onMap) + 1) :
        /\ \A l \in onMap : l.id # n
        /\ \A k \in 1..(n - 1) : \E l \in onMap : l.id = k

\* the calls suspended on a promise of the request cache that is already
\* resolved (part_000:14): their continuations are queued in call order,
\* ahead of the handling of any network response
ServedFromCache(loads) == {j \in 1..Len(loads) : loads[j].cached}

\* the suspended call i is the next one whose await can complete
CanComplete(loads, i) ==
    IF loads[i].cached
    THEN \A j \in ServedFromCache(loads) : i <= j
    ELSE ServedFromCache(loads) = {}

\* the continuation without the removal of the previous overlay
LoadGeoJSONResume_keepsPrevious(i) ==
    /\ i \in 1..Len(geoInFlight)
    /\ CanComplete(geoInFlight, i)
    /\ LET layer == [id |-> FreshStateLayerId(stateLayersOnMap),
                     capitalData |-> geoInFlight[i].capitalData,
                     mapLayer |-> currentMapLayer]
       IN /\ geoLayer' = layer
          /\ stateLayersOnMap' = stateLayersOnMap \cup {layer}
    /\ geoLayerStyle' = StyleAtCreation(zoom)
    /\ mapLoading' = [mapLoading EXCEPT !.hidden = TRUE]
    /\ geoInFlight' = RemoveAt(geoInFlight, i)
    /\ fetches' = <<>>
    /\ removed' = {}
    /\ settled' = NoUnit
    /\ lastOp' = "geoDone"
    /\ UNCHANGED <<zoom, viewport, currentDisease, lastCapitalData,
                   currentMapLayer, municipioVars, apiVars, pureVars, search, tracker>>

\* loadGeoJSON after its await, the national geometry fetched: lines 520-643.
\* map.fitBounds of fitRegion moves the map later, seen as ZoomEnd / MoveEnd.
LoadGeoJSONResume(i) ==
    /\ i \in 1..Len(geoInFlight)
    /\ CanComplete(geoInFlight, i)
    /\ LET remaining == stateLayersOnMap \ {geoLayer}
           layer == [id |-> FreshStateLayerId(remaining),
                     capitalData |-> geoInFlight[i].capitalData,
                     mapLayer |-> currentMapLayer]
       IN /\ geoLayer' = layer
          /\ stateLayersOnMap' = remaining \cup {layer}
    /\ geoLayerStyle' = StyleAtCreation(zoom)
    /\ mapLoading' = [mapLoading EXCEPT !.hidden = TRUE]
    /\ geoInFlight' = RemoveAt(geoInFlight, i)
    /\ fetches' = <<>>
    /\ removed' = {}
    /\ settled' = NoUnit
    /\ lastOp' = "geoDone"
    /\ UNCHANGED <<zoom, viewport, currentDisease, lastCapitalData,
                   currentMapLayer, municipioVars, apiVars, pureVars, search, tracker>>

\* loadGeoJSON after its await, the fetch rejected: lines 645-650.  A fetch
\* served from the request cache does not reject.  The catch block writes
\* the message into the element and leaves its class list alone.
LoadGeoJSONCatch(i) ==
    /\ i \in 1..Len(geoInFlight)
    /\ ~geoInFlight[i].cached
    /\ CanComplete(geoInFlight, i)
    /\ mapLoading' = [mapLoading EXCEPT !.content = "error"]
    /\ geoInFlight' = RemoveAt(geoInFlight, i)
    /\ fetches' = <<>>
    /\ removed' = {}
    /\ settled' = NoUnit
    /\ lastOp' = "geoFailed"
    /\ UNCHANGED <<zoom, viewport, currentDisease, geoLayer, stateLayersOnMap,
                   geoLayerStyle, lastCapitalData, currentMapLayer,
                   municipioVars, apiVars, pureVars, search, tracker>>

Next ==
    \/ \E z \in Zooms, b \in Viewports : ZoomEnd(z, b)
    \/ \E b \in Viewports : MoveEnd(b)
    \/ \E d \in Diseases : SetMapDisease(d)
    \/ \E i \in 1..Len(inFlight) : PromiseAllFulfils(i)
    \/ \E i \in 1..Len(inFlight), k \in {"geometry", "alerts"} :
          PromiseAllRejects(i, k)
    \/ LoadGeoJSON("empty")
    \/ \E i \in 1..Len(geoInFlight) : LoadGeoJSONResume(i)
    \/ \E i \in 1..Len(geoInFlight) : LoadGeoJSONCatch(i)

Spec == Init /\ [][Next]_vars

\* the load of unit u settles
Settle(u) ==
    \E i \in 1..Len(inFlight) :
       /\ inFlight[i].uf = u
       /\ \/ PromiseAllFulfils(i)
          \/ \E k \in {"geometry", "alerts"} : PromiseAllRejects(i, k)

\* the page loads the state overlay once, at start-up
InitialLoadGeoJSON ==
    /\ geoLayer = NoLayer
    /\ mapLoading.content = "spinner"
    /\ LoadGeoJSON("empty")

FairNext ==
    \/ \E z \in Zooms, b \in Viewports : ZoomEnd(z, b)
    \/ \E b \in Viewports : MoveEnd(b)
    \/ \E d \in Diseases : SetMapDisease(d)
    \/ \E u \in DOMAIN MAJOR_CITIES_BY_UF : Settle(u)
    \/ InitialLoadGeoJSON
    \/ \E i \in 1..Len(geoInFlight) : LoadGeoJSONResume(i)
    \/ \E i \in 1..Len(geoInFlight) : LoadGeoJSONCatch(i)

\* the map component with one start-up load of the state overlay and with
\* every issued municipality load settling eventually
FairSpec ==
    /\ Init
    /\ [][FairNext]_vars
    /\ \A u \in DOMAIN MAJOR_CITIES_BY_UF : WF_vars(Settle(u))

----------------------------------------------------------------------------
(* The page driving the state overlay *)

\* the page calls setMapLayer(layer): filters.js:482-488
SetMapLayer(layer) ==
    /\ currentMapLayer' = layer
    /\ IF geoLayer # NoLayer
       THEN /\ Len(geoInFlight) < MaxGeoLoads
            /\ loadGeoJSON(lastCapitalData)
       ELSE /\ fetches' = <<>>
            /\ UNCHANGED <<lastCapitalData, geoInFlight>>
    /\ removed' = {}
    /\ settled' = NoUnit
    /\ lastOp' = "setMapLayer"
    /\ UNCHANGED <<zoom, viewport, currentDisease, geoLayer, stateLayersOnMap,
                   geoLayerStyle, mapLoading, municipioVars, apiVars,
                   pureVars, search, tracker>>

\* the page calls updateMapColors(capitalData): filters.js:659-663
UpdateMapColors(capitalData) ==
    /\ IF geoLayer # NoLayer
       THEN /\ Len(geoInFlight) < MaxGeoLoads
            /\ loadGeoJSON(capitalData)
       ELSE /\ fetches' = <<>>
            /\ UNCHANGED <<lastCapitalData, geoInFlight>>
    /\ removed' = {}
    /\ settled' = NoUnit
    /\ lastOp' = "updateMapColors"
    /\ UNCHANGED <<zoom, viewport, currentDisease, geoLayer, stateLayersOnMap,
                   geoLayerStyle, currentMapLayer, mapLoading, municipioVars,
                   apiVars, pureVars, search, tracker>>

GeoNext ==
    \/ \E d \in CapitalData : LoadGeoJSONWithin(d, MaxGeoLoads)
    \/ \E l \in {"disease", "coletaEsgoto", "tratamentoEsgoto"} :
          SetMapLayer(l)
    \/ \E d \in CapitalData : UpdateMapColors(d)
    \/ \E i \in 1..Len(geoInFlight) : LoadGeoJSONResume(i)
    \/ \E i \in 1..Len(geoInFlight) : LoadGeoJSONCatch(i)

\* the state overlay under the calls of the page, the map left at its
\* initial zoom
GeoSpec == Init /\ [][GeoNext]_vars

----------------------------------------------------------------------------
(* The location search of the map view: filters.js:134-190.  A query is   *)
(* the sequence of the characters of input.value.trim().toLowerCase().    *)

\* what the user can have typed
Queries == {<<>>, <<"s">>, <<"s", "a">>, <<"o", "s">>, <<"z", "z">>}

\* the lower-cased names of the municipalities the directory lists
MunicipioNames == {<<"s", "a", "n", "t", "o", "s">>, <<"o", "s", "a", "s", "c", "o">>}

\* name.includes(query)
StringIncludes(name, query) ==
    \E i \in 1..(Len(name) - Len(query) + 1) :
       SubSeq(name, i, i + Len(query) - 1) = query

\* what the callback puts into the result panel once allMunicipios is an
\* array: lines 160-176
ShowMatches(query) ==
    IF \E name \in MunicipioNames : StringIncludes(name, query)
    THEN "matches"
    ELSE "noResults"

\* 'input' on the search box: lines 141-149 and the setTimeout of line 151
SearchInput(query) ==
    /\ search' =
          IF Len(query) < 2
          THEN [search EXCEPT !.timer = NoTimer, !.panel = "hidden",
                              !.shown = <<>>, !.value = query,
                              !.last = "input"]
          ELSE [search EXCEPT !.timer = [set |-> TRUE, query |-> query],
                              !.value = query, !.last = "input"]
    /\ UNCHANGED <<mapVars, apiVars, pureVars, tracker>>

\* the debounce timer fires: lines 151-154 up to the await, or lines 160-188
\* when allMunicipios is set.  An allMunicipios that is not an array makes
\* .filter throw, and the panel is left as it was.
SearchTimerFires ==
    /\ search.timer.set
    /\ search' =
          CASE search.allMunicipios = "null" ->
                 [search EXCEPT !.timer = NoTimer,
                                !.loads = Append(@, search.timer.query),
                                !.last = "loadStarted"]
            [] search.allMunicipios = "array" ->
                 [search EXCEPT !.timer = NoTimer,
                                !.panel = ShowMatches(search.timer.query),
                                !.shown = search.timer.query,
                                !.last = "searched"]
            [] search.allMunicipios = "errorBody" ->
                 [search EXCEPT !.timer = NoTimer, !.last = "threw"]
    /\ search.allMunicipios = "null" => Len(search.loads) < MaxSearchLoads
    /\ UNCHANGED <<mapVars, apiVars, pureVars, tracker>>

\* the directory answers load i with the list: lines 156-157 and 160-188
SearchLoadFulfils(i) ==
    /\ i \in 1..Len(search.loads)
    /\ search' = [search EXCEPT !.allMunicipios = "array",
                                !.panel = ShowMatches(search.loads[i]),
                                !.shown = search.loads[i],
                                !.loads = RemoveAt(@, i),
                                !.last = "loaded"]
    /\ UNCHANGED <<mapVars, apiVars, pureVars, tracker>>

\* the fetch of load i rejects, or its body is not JSON: the catch of
\* line 158 returns
SearchLoadRejects(i) ==
    /\ i \in 1..Len(search.loads)
    /\ search' = [search EXCEPT !.loads = RemoveAt(@, i),
                                !.last = "loadFailed"]
    /\ UNCHANGED <<mapVars, apiVars, pureVars, tracker>>

\* the directory answers load i with a non-success status and a JSON body:
\* fetch fulfils, res.ok is not looked at, the body is kept as allMunicipios
\* and .filter throws on it
SearchLoadErrorStatus(i) ==
    /\ i \in 1..Len(search.loads)
    /\ search' = [search EXCEPT !.allMunicipios = "errorBody",
                                !.loads = RemoveAt(@, i),
                                !.last = "loadFailed"]
    /\ UNCHANGED <<mapVars, apiVars, pureVars, tracker>>

SearchNext ==
    \/ \E q \in Queries : SearchInput(q)
    \/ SearchTimerFires
    \/ \E i \in 1..Len(search.loads) : SearchLoadFulfils(i)
    \/ \E i \in 1..Len(search.loads) : SearchLoadRejects(i)
    \/ \E i \in 1..Len(search.loads) : SearchLoadErrorStatus(i)

SearchSpec == Init /\ [][SearchNext]_vars

----------------------------------------------------------------------------
(* The request cache of the API service.  The handlers are functions of   *)
(* the service's state a; the object a producer resolves with is named by *)
(* the number of the producer's invocation, so that two network calls     *)
(* never return the same object.                                          *)

Api ==
    [cache |-> cache, producers |-> producers, networkCalls |-> networkCalls,
     last |-> apiLast]

\* cachedFetch that never looks into the cache
cachedFetch_alwaysFetches(a, key) ==
    [a EXCEPT
       !.networkCalls = @ + 1,
       !.producers = Append(@, [key |-> key, call |-> a.networkCalls + 1]),
       !.last = [op |-> "miss", key |-> key, promise |-> "pending",
                 value |-> NoValue]]

\* cachedFetch(key, fetcher) up to its return or its await: part_000:14-15
cachedFetch(a, key) ==
    IF key \in DOMAIN a.cache
    THEN [a EXCEPT !.last = [op |-> "hit", key |-> key,
                             promise |-> "fulfilled",
                             value |-> a.cache[key]]]
    ELSE [a EXCEPT
            !.networkCalls = @ + 1,
            !.producers = Append(@, [key |-> key,
                                     call |-> a.networkCalls + 1]),
            !.last = [op |-> "miss", key |-> key, promise |-> "pending",
                      value |-> NoValue]]

\* cachedFetch after its await, the producer fulfilled: part_000:16-17
cachedFetchResume(a, i) ==
    LET key == a.producers[i].key
        data == a.producers[i].call
    IN [a EXCEPT
          !.cache = Put(@, key, data),
          !.producers = RemoveAt(@, i),
          !.last = [op |-> "resume", key |-> key, promise |-> "fulfilled",
                    value |-> data]]

\* cachedFetch that remembers the failure of its producer under the key
cachedFetchThrow_cachesFailure(a, i) ==
    [a EXCEPT
       !.cache = Put(@, a.producers[i].key, NoValue),
       !.producers = RemoveAt(@, i),
       !.last = [op |-> "throw", key |-> a.producers[i].key,
                 promise |-> "rejected", value |-> NoValue]]

\* cachedFetch after its await, the producer rejected: the exception leaves
\* cachedFetch at part_000:15
cachedFetchThrow(a, i) ==
    [a EXCEPT
       !.producers = RemoveAt(@, i),
       !.last = [op |-> "throw", key |-> a.producers[i].key,
                 promise |-> "rejected", value |-> NoValue]]

\* `municipios-${ufId}`
MunicipiosKey(ufId) ==
    CASE ufId = 33 -> "municipios-33"
      [] ufId = 35 -> "municipios-35"

ApiCommit(a) ==
    /\ cache' = a.cache
    /\ producers' = a.producers
    /\ networkCalls' = a.networkCalls
    /\ apiLast' = a.last

\* a caller calls cachedFetch(key, fetcher)
CachedFetch(key) ==
    /\ key \in DOMAIN cache \/ networkCalls < MaxNetworkCalls
    /\ ApiCommit(cachedFetch(Api, key))
    /\ UNCHANGED <<mapVars, pureVars, search, tracker>>

FetchStates == CachedFetch("states")

FetchMunicipios(ufId) == CachedFetch(MunicipiosKey(ufId))

FetchBrazilGeoJSON == CachedFetch("brazil-geo")

\* the response of producer i arrives with a success status and parses
ProducerFulfils(i) ==
    /\ i \in 1..Len(producers)
    /\ ApiCommit(cachedFetchResume(Api, i))
    /\ UNCHANGED <<mapVars, pureVars, search, tracker>>

\* the fetch of producer i fails or its response has a non-success status
ProducerRejects(i) ==
    /\ i \in 1..Len(producers)
    /\ ApiCommit(cachedFetchThrow(Api, i))
    /\ UNCHANGED <<mapVars, pureVars, search, tracker>>

ApiNext ==
    \/ FetchStates
    \/ \E u \in {33, 35} : FetchMunicipios(u)
    \/ FetchBrazilGeoJSON
    \/ \E i \in 1..Len(producers) : ProducerFulfils(i)
    \/ \E i \in 1..Len(producers) : ProducerRejects(i)

ApiSpec == Init /\ [][ApiNext]_vars

----------------------------------------------------------------------------
(* The state and city selectors of the tracker: filters.js:25-80.  The    *)
(* 'change' handler of the state selector is the only caller of the API   *)
(* service here, so tracker.pending[i] is the state whose handler waits   *)
(* for producers[i].                                                      *)

\* what the state selector offers: no state, Rio de Janeiro, São Paulo
TrackerStates == {NoUnit, 33, 35}

\* the city selector holding the municipalities of ufId: lines 54-61
CityOptions(ufId) == [content |-> "options", uf |-> ufId]

\* the user picks ufId in the state selector: lines 41-51 and, when
\* fetchMunicipios is served from the request cache, lines 54-61
TrackerStateSelected(ufId) ==
    LET cleared == [tracker EXCEPT
                      !.state = ufId,
                      !.city = [content |-> "loading", uf |-> NoUnit],
                      !.cityPicked = FALSE,
                      !.cityDisabled = "true",
                      !.addDisabled = "true",
                      !.last = "stateChange"]
    IN /\ IF ufId = NoUnit
          THEN /\ tracker' = [cleared EXCEPT
                                 !.city = [content |-> "placeholder",
                                           uf |-> NoUnit]]
               /\ UNCHANGED apiVars
          ELSE LET a == cachedFetch(Api, MunicipiosKey(ufId))
               IN /\ MunicipiosKey(ufId) \in DOMAIN cache
                        \/ networkCalls < MaxNetworkCalls
                  /\ ApiCommit(a)
                  /\ tracker' =
                        IF a.last.op = "hit"
                        THEN [cleared EXCEPT !.city = CityOptions(ufId),
                                             !.cityDisabled = "false"]
                        ELSE [cleared EXCEPT !.pending = Append(@, ufId)]
       /\ UNCHANGED <<mapVars, pureVars, search>>

\* the municipality list of pending handler i arrives: part_000:16-17 and
\* filters.js:54-61
TrackerLoadFulfils(i) ==
    /\ i \in 1..Len(tracker.pending)
    /\ ApiCommit(cachedFetchResume(Api, i))
    /\ tracker' = [tracker EXCEPT
                      !.city = CityOptions(tracker.pending[i]),
                      !.cityPicked = FALSE,
                      !.cityDisabled = "false",
                      !.pending = RemoveAt(@, i),
                      !.last = "loaded"]
    /\ UNCHANGED <<mapVars, pureVars, search>>

\* the fetch of pending handler i fails: filters.js:62-64
TrackerLoadRejects(i) ==
    /\ i \in 1..Len(tracker.pending)
    /\ ApiCommit(cachedFetchThrow(Api, i))
    /\ tracker' = [tracker EXCEPT
                      !.city = [content |-> "error", uf |-> NoUnit],
                      !.cityPicked = FALSE,
                      !.pending = RemoveAt(@, i),
                      !.last = "loadFailed"]
    /\ UNCHANGED <<mapVars, pureVars, search>>

\* the user picks a municipality, or the empty option, in an enabled city
\* selector: lines 68-70
TrackerCityChange(picked) ==
    /\ tracker.cityDisabled = "false"
    /\ picked => tracker.city.content = "options"
    /\ tracker' = [tracker EXCEPT !.cityPicked = picked,
                                  !.addDisabled =
                                     IF picked THEN "false" ELSE "true",
                                  !.last = "cityChange"]
    /\ UNCHANGED <<mapVars, apiVars, pureVars, search>>

TrackerNext ==
    \/ \E u \in TrackerStates : TrackerStateSelected(u)
    \/ \E i \in 1..Len(tracker.pending) : TrackerLoadFulfils(i)
    \/ \E i \in 1..Len(tracker.pending) : TrackerLoadRejects(i)
    \/ \E p \in BOOLEAN : TrackerCityChange(p)

TrackerSpec == Init /\ [][TrackerNext]_vars

----------------------------------------------------------------------------
(* The pure helpers.  A string is the sequence of its characters; a       *)
(* JavaScript value is a record of its type and its number or characters. *)

Str(chars) == [type |-> "string", n |-> 0, chars |-> chars]
Num(n) == [type |-> "number", n |-> n, chars |-> <<>>]
Null == [type |-> "null", n |-> 0, chars |-> <<>>]
Undefined == [type |-> "undefined", n |-> 0, chars |-> <<>>]

DigitChar(d) == <<"0", "1", "2", "3", "4", "5", "6", "7", "8", "9">>[d + 1]

RECURSIVE Digits(_)
Digits(n) ==
    IF n < 10 THEN <<DigitChar(n)>>
    ELSE Digits(n \div 10) \o <<DigitChar(n % 10)>>

\* ToString of the language, for integers, strings, null and undefined
ToJSString(v) ==
    CASE v.type = "string" -> v.chars
      [] v.type = "number" ->
            IF v.n < 0 THEN <<"-">> \o Digits(0 - v.n) ELSE Digits(v.n)
      [] v.type = "null" -> <<"n", "u", "l", "l">>
      [] v.type = "undefined" -> <<"u", "n", "d", "e", "f", "i", "n", "e", "d">>

\* what Array.prototype.join writes for one element
JoinElement(v) ==
    IF v.type \in {"null", "undefined"} THEN <<>> ELSE ToJSString(v)

\* args.join(sep)
RECURSIVE join(_, _)
join(args, sep) ==
    IF Len(args) = 0 THEN <<>>
    ELSE IF Len(args) = 1 THEN JoinElement(args[1])
    ELSE JoinElement(args[1]) \o sep \o join(Tail(args), sep)

\* cacheKey(...args): part_000:9-11
cacheKey(args) == join(args, <<"|">>)

\* the colors object of getAlertColorHex, by property key
colors ==
    (<<"1">> :> "#22c55e") @@ (<<"2">> :> "#eab308") @@
    (<<"3">> :> "#f97316") @@ (<<"4">> :> "#ef4444")

\* getAlertColorHex with red as the fallback
getAlertColorHex_fallsBackToRed(nivel) ==
    IF ToJSString(nivel) \in DOMAIN colors
    THEN colors[ToJSString(nivel)]
    ELSE colors[ToJSString(Num(4))]

\* colors[nivel] || colors[1]: every stored colour is a non-empty string
getAlertColorHex(nivel) ==
    IF ToJSString(nivel) \in DOMAIN colors
    THEN colors[ToJSString(nivel)]
    ELSE colors[ToJSString(Num(1))]

\* the levels object of getAlertLevel, by property key
levels ==
    (<<"1">> :> [label |-> "Verde", color |-> "var(--alert-green)",
                 bg |-> "rgba(34, 197, 94, 0.15)",
                 class |-> "badge--green"]) @@
    (<<"2">> :> [label |-> "Atenção", color |-> "var(--alert-yellow)",
                 bg |-> "rgba(234, 179, 8, 0.15)",
                 class |-> "badge--yellow"]) @@
    (<<"3">> :> [label |-> "Alerta", color |-> "var(--alert-orange)",
                 bg |-> "rgba(249, 115, 22, 0.15)",
                 class |-> "badge--orange"]) @@
    (<<"4">> :> [label |-> "Emergência", color |-> "var(--alert-red)",
                 bg |-> "rgba(239, 68, 68, 0.15)",
                 class |-> "badge--red"])

\* levels[nivel] || levels[1]: every stored level is an object
getAlertLevel(nivel) ==
    IF ToJSString(nivel) \in DOMAIN levels
    THEN levels[ToJSString(nivel)]
    ELSE levels[ToJSString(Num(1))]

\* A percentage is held in tenths of a percent, as the sanitation table
\* gives it; an opacity is held in units of 1/10000.
PercentScale == 10
OpacityScale == 10000

\* getSanitationOpacity over half the range
getSanitationOpacity_halfRange(percent) ==
    (35 * OpacityScale) \div 100
      + (percent * ((2 * OpacityScale) \div 10)) \div (100 * PercentScale)

\* 0.35 + (percent / 100) * 0.4; the division is exact at these scales
getSanitationOpacity(percent) ==
    (35 * OpacityScale) \div 100
      + (percent * ((4 * OpacityScale) \div 10)) \div (100 * PercentScale)

\* getSanitationColor with the boundary values in the lower band
getSanitationColor_strictBounds(percent) ==
    IF percent > 80 * PercentScale THEN "#06b6d4"
    ELSE IF percent > 60 * PercentScale THEN "#22d3ee"
    ELSE IF percent > 40 * PercentScale THEN "#67e8f9"
    ELSE IF percent > 20 * PercentScale THEN "#f59e0b"
    ELSE "#ef4444"

\* getSanitationColor(percent): filters.js:468-475
getSanitationColor(percent) ==
    IF percent >= 80 * PercentScale THEN "#06b6d4"
    ELSE IF percent >= 60 * PercentScale THEN "#22d3ee"
    ELSE IF percent >= 40 * PercentScale THEN "#67e8f9"
    ELSE IF percent >= 20 * PercentScale THEN "#f59e0b"
    ELSE "#ef4444"

\* Array.prototype.sort with the comparator (a, b) => a.SE - b.SE: a stable
\* sort, here by insertion from the left
RECURSIVE InsertBySE(_, _)
InsertBySE(sorted, rec) ==
    IF Len(sorted) = 0 THEN <<rec>>
    ELSE IF sorted[Len(sorted)].SE - rec.SE <= 0 THEN Append(sorted, rec)
    ELSE Append(InsertBySE(SubSeq(sorted, 1, Len(sorted) - 1), rec),
                sorted[Len(sorted)])

RECURSIVE SortBySE(_)
SortBySE(data) ==
    IF Len(data) = 0 THEN <<>>
    ELSE InsertBySE(SortBySE(SubSeq(data, 1, Len(data) - 1)), data[Len(data)])

\* the producer of fetchDiseaseData handing the response on as it came
fetchDiseaseDataProducer_unsorted(response) == response

\* the producer of fetchDiseaseData after res.json(): part_000:58-60
fetchDiseaseDataProducer(response) == SortBySE(response)

\* Math.min(Math.ceil(dayOfYear / 7), 52), dayOfYear being the whole days
\* elapsed since 1 January 00:00 of the current year: part_000:103-105.
\* Math.ceil(n / 7) is (n + 6) \div 7 for n >= 0.
currentEW(dayOfYear) ==
    LET weeks == (dayOfYear + 6) \div 7
    IN IF weeks <= 52 THEN weeks ELSE 52

\* Math.max(1, currentEW - 4): part_000:106
startEW(ew) == IF ew - 4 >= 1 THEN ew - 4 ELSE 1

\* the table of state capitals of fetchNationalOverview: part_000:69-97
capitals ==
    <<
       [geocode |-> 3550308, uf |-> "SP"],
       [geocode |-> 3304557, uf |-> "RJ"],
       [geocode |-> 3106200, uf |-> "MG"],
       [geocode |-> 2927408, uf |-> "BA"],
       [geocode |-> 5300108, uf |-> "DF"],
       [geocode |-> 2304400, uf |-> "CE"],
       [geocode |-> 1302603, uf |-> "AM"],
       [geocode |-> 4106902, uf |-> "PR"],
       [geocode |-> 2611606, uf |-> "PE"],
       [geocode |-> 5208707, uf |-> "GO"],
       [geocode |-> 1501402, uf |-> "PA"],
       [geocode |-> 4314902, uf |-> "RS"],
       [geocode |-> 2111300, uf |-> "MA"],
       [geocode |-> 2704302, uf |-> "AL"],
       [geocode |-> 5002704, uf |-> "MS"],
       [geocode |-> 2408102, uf |-> "RN"],
       [geocode |-> 2211001, uf |-> "PI"],
       [geocode |-> 2507507, uf |-> "PB"],
       [geocode |-> 2800308, uf |-> "SE"],
       [geocode |-> 5103403, uf |-> "MT"],
       [geocode |-> 4205407, uf |-> "SC"],
       [geocode |-> 3205309, uf |-> "ES"],
       [geocode |-> 1100205, uf |-> "RO"],
       [geocode |-> 1600303, uf |-> "AP"],
       [geocode |-> 1200401, uf |-> "AC"],
       [geocode |-> 1400100, uf |-> "RR"],
       [geocode |-> 1721000, uf |-> "TO"]
    >>

\* `latest` of an entry of the national overview: a record of the series
\* or null
LatestRecord(rec) == [present |-> TRUE, record |-> rec]
NoLatestRecord == [present |-> FALSE, record |-> [SE |-> 0, casos |-> 0]]

\* what the alert feed did for one capital: it answered with a series, or
\* the request failed
FeedAnswer(response) == [ok |-> TRUE, response |-> response]
FeedFailure == [ok |-> FALSE, response |-> <<>>]

\* the mapper of the producer with no try / catch around the fetch
overviewEntry_withoutCatch(cap, outcome) ==
    IF outcome.ok
    THEN LET data == fetchDiseaseDataProducer(outcome.response)
         IN [status |-> "fulfilled",
             value |-> [geocode |-> cap.geocode, uf |-> cap.uf, data |-> data,
                        latest |-> IF Len(data) > 0
                                   THEN LatestRecord(data[Len(data)])
                                   ELSE NoLatestRecord]]
    ELSE [status |-> "rejected",
          value |-> [geocode |-> cap.geocode, uf |-> cap.uf, data |-> <<>>,
                     latest |-> NoLatestRecord]]

\* the async mapper of capitals.map as Promise.allSettled reports it:
\* part_000:109-118
overviewEntry(cap, outcome) ==
    IF outcome.ok
    THEN LET data == fetchDiseaseDataProducer(outcome.response)
         IN [status |-> "fulfilled",
             value |-> [geocode |-> cap.geocode, uf |-> cap.uf, data |-> data,
                        latest |-> IF Len(data) > 0
                                   THEN LatestRecord(data[Len(data)])
                                   ELSE NoLatestRecord]]
    ELSE [status |-> "fulfilled",
          value |-> [geocode |-> cap.geocode, uf |-> cap.uf, data |-> <<>>,
                     latest |-> NoLatestRecord]]

\* the producer of fetchNationalOverview, outcomes[i] being what the feed
\* did for capitals[i]: part_000:108-123
fetchNationalOverviewProducer(outcomes) ==
    LET results == [i \in 1..Len(capitals) |->
                       overviewEntry(capitals[i], outcomes[i])]
        fulfilled == SelectSeq(results, LAMBDA r : r.status = "fulfilled")
    IN [i \in 1..Len(fulfilled) |-> fulfilled[i].value]

\* getUFAbbreviation(ufId): map[ufId] || ''
UFAbbreviations ==
    (11 :> "RO")
    @@ (12 :> "AC")
    @@ (13 :> "AM")
    @@ (14 :> "RR")
    @@ (15 :> "PA")
    @@ (16 :> "AP")
    @@ (17 :> "TO")
    @@ (21 :> "MA")
    @@ (22 :> "PI")
    @@ (23 :> "CE")
    @@ (24 :> "RN")
    @@ (25 :> "PB")
    @@ (26 :> "PE")
    @@ (27 :> "AL")
    @@ (28 :> "SE")
    @@ (29 :> "BA")
    @@ (31 :> "MG")
    @@ (32 :> "ES")
    @@ (33 :> "RJ")
    @@ (35 :> "SP")
    @@ (41 :> "PR")
    @@ (42 :> "SC")
    @@ (43 :> "RS")
    @@ (50 :> "MS")
    @@ (51 :> "MT")
    @@ (52 :> "GO")
    @@ (53 :> "DF")

getUFAbbreviation(ufId) ==
    IF ufId \in DOMAIN UFAbbreviations THEN UFAbbreviations[ufId] ELSE ""

\* Object.entries(regions) of getRegionForUF: part_000:179-185
regions ==
    << [region |-> "norte",
        ufs |-> <<"AC", "AM", "AP", "PA", "RO", "RR", "TO">>],
       [region |-> "nordeste",
        ufs |-> <<"AL", "BA", "CE", "MA", "PB", "PE", "PI", "RN", "SE">>],
       [region |-> "sudeste", ufs |-> <<"ES", "MG", "RJ", "SP">>],
       [region |-> "sul", ufs |-> <<"PR", "RS", "SC">>],
       [region |-> "centro-oeste", ufs |-> <<"DF", "GO", "MS", "MT">>] >>

\* the first entry from position k on whose list includes ufAbbr, or 'all'
RECURSIVE RegionFrom(_, _)
RegionFrom(k, ufAbbr) ==
    IF k > Len(regions) THEN "all"
    ELSE IF Includes(regions[k].ufs, ufAbbr) THEN regions[k].region
    ELSE RegionFrom(k + 1, ufAbbr)

\* the lookup that gives up after the first macro-region
getRegionForUF_firstRegionOnly(ufAbbr) ==
    IF Includes(regions[1].ufs, ufAbbr) THEN regions[1].region ELSE "all"

\* getRegionForUF(ufAbbr): part_000:178-190
getRegionForUF(ufAbbr) == RegionFrom(1, ufAbbr)

\* getSanitationData(), the two percentages in tenths of a percent
getSanitationData ==
    ("AC" :> [coletaEsgoto |-> 144, tratamentoEsgoto |-> 208])
    @@ ("AL" :> [coletaEsgoto |-> 296, tratamentoEsgoto |-> 301])
    @@ ("AM" :> [coletaEsgoto |-> 142, tratamentoEsgoto |-> 335])
    @@ ("AP" :> [coletaEsgoto |-> 61, tratamentoEsgoto |-> 118])
    @@ ("BA" :> [coletaEsgoto |-> 358, tratamentoEsgoto |-> 524])
    @@ ("CE" :> [coletaEsgoto |-> 299, tratamentoEsgoto |-> 421])
    @@ ("DF" :> [coletaEsgoto |-> 905, tratamentoEsgoto |-> 823])
    @@ ("ES" :> [coletaEsgoto |-> 574, tratamentoEsgoto |-> 517])
    @@ ("GO" :> [coletaEsgoto |-> 580, tratamentoEsgoto |-> 673])
    @@ ("MA" :> [coletaEsgoto |-> 137, tratamentoEsgoto |-> 178])
    @@ ("MG" :> [coletaEsgoto |-> 714, tratamentoEsgoto |-> 465])
    @@ ("MS" :> [coletaEsgoto |-> 465, tratamentoEsgoto |-> 628])
    @@ ("MT" :> [coletaEsgoto |-> 362, tratamentoEsgoto |-> 637])
    @@ ("PA" :> [coletaEsgoto |-> 84, tratamentoEsgoto |-> 152])
    @@ ("PB" :> [coletaEsgoto |-> 367, tratamentoEsgoto |-> 432])
    @@ ("PE" :> [coletaEsgoto |-> 328, tratamentoEsgoto |-> 395])
    @@ ("PI" :> [coletaEsgoto |-> 128, tratamentoEsgoto |-> 221])
    @@ ("PR" :> [coletaEsgoto |-> 744, tratamentoEsgoto |-> 831])
    @@ ("RJ" :> [coletaEsgoto |-> 653, tratamentoEsgoto |-> 418])
    @@ ("RN" :> [coletaEsgoto |-> 269, tratamentoEsgoto |-> 347])
    @@ ("RO" :> [coletaEsgoto |-> 75, tratamentoEsgoto |-> 139])
    @@ ("RR" :> [coletaEsgoto |-> 226, tratamentoEsgoto |-> 412])
    @@ ("RS" :> [coletaEsgoto |-> 332, tratamentoEsgoto |-> 446])
    @@ ("SC" :> [coletaEsgoto |-> 308, tratamentoEsgoto |-> 462])
    @@ ("SE" :> [coletaEsgoto |-> 230, tratamentoEsgoto |-> 368])
    @@ ("SP" :> [coletaEsgoto |-> 896, tratamentoEsgoto |-> 734])
    @@ ("TO" :> [coletaEsgoto |-> 274, tratamentoEsgoto |-> 553])

\* cap.latest: the last record of the capital's series, or null
Latest(nivel) == [present |-> TRUE, nivel |-> nivel]
NoLatest == [present |-> FALSE, nivel |-> Undefined]

\* what the page passes as capitalData: the default [] and a national
\* overview with a capital on alert, one whose series was empty and one on
\* the lowest level
CapitalDataset(name) ==
    CASE name = "empty" -> <<>>
      [] name = "overview" ->
            << [uf |-> "SP", latest |-> Latest(Num(3))],
               [uf |-> "AP", latest |-> NoLatest],
               [uf |-> "MG", latest |-> Latest(Num(1))] >>

\* diseaseByUF of loadGeoJSON: filters.js:523-531
RECURSIVE DiseaseByUF(_)
DiseaseByUF(capitalData) ==
    IF Len(capitalData) = 0 THEN EmptyObject
    ELSE LET cap == capitalData[Len(capitalData)]
             before == DiseaseByUF(SubSeq(capitalData, 1,
                                          Len(capitalData) - 1))
         IN IF cap.latest.present THEN Put(before, cap.uf, cap) ELSE before

\* the style function of loadGeoJSON without the zoom test
stateStyle_withoutZoomDimming(mapLayer, capitalData, codarea, region, z) ==
    LET ufAbbr == getUFAbbreviation(Number(codarea))
        outside == region # "all" /\ getRegionForUF(ufAbbr) # region
        diseaseByUF == DiseaseByUF(capitalData)
    IN IF mapLayer = "disease"
       THEN IF ufAbbr \in DOMAIN diseaseByUF
            THEN [fillColor |->
                    getAlertColorHex(diseaseByUF[ufAbbr].latest.nivel),
                  fillOpacity |-> IF outside THEN 1500 ELSE 5500]
            ELSE [fillColor |-> "#1e293b",
                  fillOpacity |-> IF outside THEN 1500 ELSE 6000]
       ELSE IF ufAbbr \in DOMAIN getSanitationData
            THEN LET sanitation == getSanitationData[ufAbbr]
                     val == IF mapLayer \in DOMAIN sanitation
                               /\ sanitation[mapLayer] # 0
                            THEN sanitation[mapLayer] ELSE 0
                 IN [fillColor |-> getSanitationColor(val),
                     fillOpacity |-> IF outside THEN 1500
                                     ELSE getSanitationOpacity(val)]
            ELSE [fillColor |-> "#1e293b",
                  fillOpacity |-> IF outside THEN 1500 ELSE 6000]

\* the style function of loadGeoJSON, filters.js:537-576, for the feature
\* with that codarea; fillOpacity in units of 1/10000
stateStyle(mapLayer, capitalData, codarea, region, z) ==
    LET ufAbbr == getUFAbbreviation(Number(codarea))
        outside == region # "all" /\ getRegionForUF(ufAbbr) # region
        diseaseByUF == DiseaseByUF(capitalData)
        styled ==
          IF mapLayer = "disease"
          THEN IF ufAbbr \in DOMAIN diseaseByUF
               THEN [fillColor |->
                       getAlertColorHex(diseaseByUF[ufAbbr].latest.nivel),
                     fillOpacity |-> IF outside THEN 1500 ELSE 5500]
               ELSE [fillColor |-> "#1e293b",
                     fillOpacity |-> IF outside THEN 1500 ELSE 6000]
          ELSE IF ufAbbr \in DOMAIN getSanitationData
               THEN LET sanitation == getSanitationData[ufAbbr]
                        val == IF mapLayer \in DOMAIN sanitation
                                  /\ sanitation[mapLayer] # 0
                               THEN sanitation[mapLayer] ELSE 0
                    IN [fillColor |-> getSanitationColor(val),
                        fillOpacity |-> IF outside THEN 1500
                                        ELSE getSanitationOpacity(val)]
               ELSE [fillColor |-> "#1e293b",
                     fillOpacity |-> IF outside THEN 1500 ELSE 6000]
    IN IF z >= MUNICIPIO_ZOOM_THRESHOLD
       THEN [styled EXCEPT !.fillOpacity = 1000]
       ELSE styled

\* alertMap[geocode]: the alert record of a municipality, or undefined
Alert(nivel) == [present |-> TRUE, nivel |-> nivel]
NoAlert == [present |-> FALSE, nivel |-> Undefined]

\* the style function with one opacity for every municipality
municipioStyle_sameOpacity(alert) ==
    IF alert.present
    THEN [fillColor |-> getAlertColorHex(alert.nivel), fillOpacity |-> 6000]
    ELSE [fillColor |-> "rgba(30, 41, 59, 0.4)", fillOpacity |-> 6000]

\* the style function of loadMunicipioLayer: filters.js:372-392
municipioStyle(alert) ==
    IF alert.present
    THEN [fillColor |-> getAlertColorHex(alert.nivel), fillOpacity |-> 6000]
    ELSE [fillColor |-> "rgba(30, 41, 59, 0.4)", fillOpacity |-> 2500]

\* the fillOpacity 'mouseover' sets on a municipality: filters.js:416-420
municipioHoverOpacity(alert) == IF alert.present THEN 8000 ELSE 3500

\* the characters a component is written with
Chars == {"1", "|"}

StringsUpTo(n) == UNION {[1..k -> Chars] : k \in 0..n}

\* the components a key is built from: strings, numbers, a missing value
Components ==
    {Str(c) : c \in StringsUpTo(MaxComponentLen)}
      \cup {Num(1), Num(11), Undefined}

Arities == {1, 2}

ArgLists == UNION {[1..k -> Components] : k \in Arities}

\* the values handed over as an alert level
Niveis == {Num(n) : n \in -2..6} \cup {Null, Undefined}

\* 0.0 .. 100.0
Percents == 0..(100 * PercentScale)

\* the records of the alert feed: week 202503 is missing upstream
AlertRecords == [SE : {202501, 202502, 202504}, casos : {0, 7}]

\* what the alert feed answers, in any order
Responses == UNION {[1..k -> AlertRecords] : k \in 0..MaxSeries}

\* every box of the grid the features lie on, and one away from all of them
ViewportBoxes ==
    {Box(b[1], b[2], b[3], b[4]) :
        b \in {c \in (0..3) \X (0..3) \X (0..3) \X (0..3) :
                  c[1] <= c[3] /\ c[2] <= c[4]}}
      \cup {Box(5, 5, 6, 6)}

\* geoLayer as getVisibleUFs can find it
GeoLayers ==
    {NoLayer, [id |-> 1, capitalData |-> "empty", mapLayer |-> "disease"]}

\* 'aguaTratada' stands for a layer name the sanitation table has no
\* column for
MapLayers == {"disease", "coletaEsgoto", "tratamentoEsgoto", "aguaTratada"}

\* the codarea of São Paulo, Amapá, Minas Gerais and of no unit
Codareas == {<<3, 5>>, <<1, 6>>, <<3, 1>>, <<9, 9>>}

Regions == {"all", "sudeste", "norte"}

\* alertMap[geocode] of a municipality
Alerts == {Alert(n) : n \in Niveis} \cup {NoAlert}

\* what the feed can do for the first capital of the table
FeedOutcomes == {FeedAnswer(r) : r \in Responses} \cup {FeedFailure}

\* what it can do for the second: fail, answer with no record, answer with
\* one record
FewFeedOutcomes ==
    {FeedFailure, FeedAnswer(<<>>),
     FeedAnswer(<<[SE |-> 202502, casos |-> 7]>>)}

\* the feed's outcome for every capital of the table: the first two as
\* given, the others answer with one record
OverviewOutcomes(o1, o2) ==
    [i \in 1..Len(capitals) |->
        IF i = 1 THEN o1
        ELSE IF i = 2 THEN o2
        ELSE FeedAnswer(<<[SE |-> 202501, casos |-> 0]>>)]

\* dayOfYear runs from 0 on 1 January to 365 on 31 December of a leap
\* year; a code is Number(codarea) of a two-digit codarea, or NaN
PureInputs ==
    {[fn |-> "cacheKey", args |-> <<a, b>>] : a \in ArgLists, b \in ArgLists}
      \cup {[fn |-> f, args |-> <<v>>] :
              f \in {"getAlertColorHex", "getAlertLevel"}, v \in Niveis}
      \cup {[fn |-> f, args |-> <<p>>] :
              f \in {"getSanitationOpacity", "getSanitationColor"},
              p \in Percents}
      \cup {[fn |-> "fetchDiseaseData", args |-> <<r>>] : r \in Responses}
      \cup {[fn |-> "getVisibleUFs", args |-> <<gl, b>>] :
              gl \in GeoLayers, b \in ViewportBoxes}
      \cup {[fn |-> "stateStyle", args |-> <<l, d, c, r, z>>] :
              l \in MapLayers, d \in CapitalData, c \in Codareas,
              r \in Regions, z \in Zooms}
      \cup {[fn |-> "municipioStyle", args |-> <<a>>] : a \in Alerts}
      \cup {[fn |-> "epidemiologicalWeeks", args |-> <<d>>] : d \in 0..365}
      \cup {[fn |-> "regionCatalog", args |-> <<c>>] : c \in 0..99 \cup {NaN}}
      \cup {[fn |-> "fetchNationalOverview", args |-> <<d, o1, o2>>] :
              d \in Diseases, o1 \in FeedOutcomes, o2 \in FewFeedOutcomes}

PureInit ==
    /\ MapInit
    /\ ApiInit
    /\ SearchInit
    /\ TrackerInit
    /\ input \in PureInputs
    /\ output = NoOutput

Return(value) ==
    /\ ~output.done
    /\ output' = [done |-> TRUE, value |-> value]
    /\ UNCHANGED <<input, mapVars, apiVars, search, tracker>>

\* two calls of cacheKey, one with each argument list
CacheKeyCalls ==
    /\ input.fn = "cacheKey"
    /\ Return(<<cacheKey(input.args[1]), cacheKey(input.args[2])>>)

GetAlertColorHexCall ==
    /\ input.fn = "getAlertColorHex"
    /\ Return(getAlertColorHex(input.args[1]))

GetAlertLevelCall ==
    /\ input.fn = "getAlertLevel"
    /\ Return(getAlertLevel(input.args[1]))

GetSanitationOpacityCall ==
    /\ input.fn = "getSanitationOpacity"
    /\ Return(getSanitationOpacity(input.args[1]))

GetSanitationColorCall ==
    /\ input.fn = "getSanitationColor"
    /\ Return(getSanitationColor(input.args[1]))

\* two calls of fetchDiseaseData with the same arguments: the first runs
\* the producer on the upstream response and cachedFetch stores what it
\* returns, the second is handed the stored array
FetchDiseaseDataCalls ==
    /\ input.fn = "fetchDiseaseData"
    /\ LET stored == fetchDiseaseDataProducer(input.args[1])
       IN Return([fetched |-> stored, cached |-> stored])

GetVisibleUFsCall ==
    /\ input.fn = "getVisibleUFs"
    /\ Return(getVisibleUFs(input.args[1], input.args[2]))

\* L.geoJSON or resetStyle evaluates the style function for one feature
StateStyleCall ==
    /\ input.fn = "stateStyle"
    /\ Return(stateStyle(input.args[1], CapitalDataset(input.args[2]),
                         input.args[3], input.args[4], input.args[5]))

\* L.geoJSON or resetStyle evaluates the style function for one municipality
MunicipioStyleCall ==
    /\ input.fn = "municipioStyle"
    /\ Return(municipioStyle(input.args[1]))

\* cacheKey('national', disease)
NationalKey(disease) ==
    CASE disease = "dengue" -> "national|dengue"
      [] disease = "zika" -> "national|zika"

\* two calls of fetchNationalOverview(disease) in sequence, the producer of
\* the first resolving before the second call: part_000:65-67, 13-18
FetchNationalOverviewCalls ==
    /\ input.fn = "fetchNationalOverview"
    /\ LET key == NationalKey(input.args[1])
           called == cachedFetch(Api, key)
           entries == fetchNationalOverviewProducer(
                          OverviewOutcomes(input.args[2], input.args[3]))
           resolved == cachedFetchResume(called, Len(called.producers))
           again == cachedFetch(resolved, key)
       IN Return([first |-> [promise |-> resolved.last.promise,
                             object |-> resolved.last.value,
                             entries |-> entries],
                  second |-> [op |-> again.last.op,
                              promise |-> again.last.promise,
                              object |-> again.last.value],
                  producerRuns |-> again.networkCalls,
                  pending |-> Len(again.producers)])

\* the week window fetchNationalOverview asks the feed for on a given day:
\* part_000:99-106, 111
EpidemiologicalWeeksCall ==
    /\ input.fn = "epidemiologicalWeeks"
    /\ LET ew == currentEW(input.args[1])
       IN Return([ew_start |-> startEW(ew), ew_end |-> ew])

\* the positions of the capitals table whose uf is ufAbbr
CapitalsOf(ufAbbr) == {i \in 1..Len(capitals) : capitals[i].uf = ufAbbr}

\* one code looked up in every table of the catalog: its abbreviation, its
\* macro-region, its row of getSanitationData() and its capitals
RegionCatalogCall ==
    /\ input.fn = "regionCatalog"
    /\ LET ufAbbr == getUFAbbreviation(input.args[1])
       IN Return([abbreviation |-> ufAbbr,
                  region |-> getRegionForUF(ufAbbr),
                  sanitation |->
                     IF ufAbbr \in DOMAIN getSanitationData
                     THEN <<getSanitationData[ufAbbr]>>
                     ELSE <<>>,
                  capitals |-> CapitalsOf(ufAbbr)])

PureNext ==
    \/ CacheKeyCalls
    \/ GetAlertColorHexCall
    \/ GetAlertLevelCall
    \/ GetSanitationOpacityCall
    \/ GetSanitationColorCall
    \/ FetchDiseaseDataCalls
    \/ GetVisibleUFsCall
    \/ StateStyleCall
    \/ MunicipioStyleCall
    \/ FetchNationalOverviewCalls
    \/ EpidemiologicalWeeksCall
    \/ RegionCatalogCall

PureSpec == PureInit /\ [][PureNext]_vars

TypeOK ==
    /\ zoom \in Zooms
    /\ viewport \in Viewports
    /\ currentDisease \in Diseases
    /\ lastCapitalData \in CapitalData
    /\ currentMapLayer \in MapLayers
    /\ mapLoading \in [content : {"spinner", "error"}, hidden : BOOLEAN]
    /\ geoLayerStyle \in {"none", "data", "dimmed", "faded"}
    /\ Len(geoInFlight) <= MaxGeoLoads
    /\ loadingStates \subseteq DOMAIN MAJOR_CITIES_BY_UF
    /\ \A i \in 1..Len(inFlight) : inFlight[i].disease \in Diseases
    /\ \A l \in municipioLayersOnMap : l.id \in 1..MaxLayers

----------------------------------------------------------------------------
(* Properties of the municipality layer manager *)

Curated == DOMAIN MAJOR_CITIES_BY_UF

\* how often x occurs in the sequence s
Count(s, x) == Cardinality({i \in 1..Len(s) : s[i] = x})

\* the loads in flight for unit u
LoadsInFlight(loads, u) == {i \in 1..Len(loads) : loads[i].uf = u}

\* C1: between two turns of the event loop no unit is both in loadingStates
\* and a key of loadedMunicipioLayers.
C1_LoadingDisjointFromLoaded ==
    loadingStates \cap DOMAIN loadedMunicipioLayers = {}

\* a load has just completed while another unit is still loading
C1_Witness ==
    /\ lastOp = "loadDone"
    /\ loadingStates # {}
    /\ DOMAIN loadedMunicipioLayers # {}

\* C2 (as claimed): a load that resolves commits a layer, to
\* loadedMunicipioLayers or to the map, only if its alert data was fetched
\* for the disease that is current when it resolves.
C2_StaleLoadDiscarded ==
    [][lastOp' = "loadDone" =>
          /\ \A l \in municipioLayersOnMap' \ municipioLayersOnMap :
                l.disease = currentDisease'
          /\ \A u \in DOMAIN loadedMunicipioLayers' :
                u \notin DOMAIN loadedMunicipioLayers =>
                   loadedMunicipioLayers'[u].disease = currentDisease']_vars

\* C3: at most one municipality layer per unit is on the map, and the
\* municipality layers on the map are exactly the ones recorded in
\* loadedMunicipioLayers, each under its own unit.
C3_OneRecordedLayerPerUnit ==
    /\ municipioLayersOnMap = Range(loadedMunicipioLayers)
    /\ \A u \in DOMAIN loadedMunicipioLayers :
          loadedMunicipioLayers[u].uf = u
    /\ \A k, l \in municipioLayersOnMap : k.uf = l.uf => k = l

\* two units have their layer on the map
C3_Witness ==
    /\ Cardinality(municipioLayersOnMap) = 2
    /\ Cardinality(DOMAIN loadedMunicipioLayers) = 2

\* C4: an evaluation that follows an evaluation, with the same zoom and
\* bounds and nothing in between, initiates no fetch.
C4_SecondEvaluationFetchesNothing ==
    [][(/\ lastOp = "handleZoomChange"
        /\ lastOp' = "handleZoomChange"
        /\ zoom' = zoom
        /\ viewport' = viewport) => fetches' = <<>>]_vars

\* an evaluation at zoom >= 6 has skipped a visible unit that is loading and
\* one that is loaded
C4_Witness ==
    /\ lastOp = "handleZoomChange"
    /\ zoom >= MUNICIPIO_ZOOM_THRESHOLD
    /\ fetches = <<>>
    /\ \E u \in loadingStates : Includes(getVisibleUFs(geoLayer, viewport), u)
    /\ \E u \in DOMAIN loadedMunicipioLayers :
          Includes(getVisibleUFs(geoLayer, viewport), u)

\* C5: an evaluation at zoom >= 6 initiates exactly one load (one geometry
\* fetch and one alert fetch) for every visible curated unit that is neither
\* loading nor loaded, and no unit ever has two loads in flight.
C5_ExactlyOneLoad ==
    [][/\ \A u \in Curated : Cardinality(LoadsInFlight(inFlight', u)) <= 1
       /\ (lastOp' = "handleZoomChange" /\ zoom' >= MUNICIPIO_ZOOM_THRESHOLD) =>
             \A u \in Curated :
                (/\ Includes(getVisibleUFs(geoLayer, viewport'), u)
                 /\ u \notin loadingStates
                 /\ u \notin DOMAIN loadedMunicipioLayers) =>
                    /\ Count(fetches', GeometryFetch(u)) = 1
                    /\ Count(fetches', AlertsFetch(u, currentDisease)) = 1
                    /\ Cardinality({i \in 1..Len(fetches') :
                                       fetches'[i].uf = u}) = 2
                    /\ Cardinality(LoadsInFlight(inFlight', u)) = 1]_vars

\* an evaluation has initiated a load for a unit that is twice in the
\* visible list
C5_Witness ==
    /\ lastOp = "handleZoomChange"
    /\ \E u \in Curated :
          /\ Count(getVisibleUFs(geoLayer, viewport), u) = 2
          /\ Count(fetches, GeometryFetch(u)) = 1

\* C6: an evaluation at zoom < 6 takes every layer recorded in
\* loadedMunicipioLayers off the map, leaves loadedMunicipioLayers empty and
\* initiates no fetch.
C6_ZoomOutTearsDown ==
    [][(lastOp' = "handleZoomChange" /\ zoom' < MUNICIPIO_ZOOM_THRESHOLD) =>
          /\ Range(loadedMunicipioLayers) \cap municipioLayersOnMap' = {}
          /\ loadedMunicipioLayers' = EmptyObject
          /\ fetches' = <<>>]_vars

\* an evaluation at zoom < 6 has taken two layers off the map
C6_Witness ==
    /\ lastOp = "handleZoomChange"
    /\ zoom < MUNICIPIO_ZOOM_THRESHOLD
    /\ Cardinality(removed) = 2

\* C7: setMapDisease, at any zoom, takes the layer of every loaded unit off
\* the map and out of loadedMunicipioLayers and deletes the unit's entry of
\* municipioAlertCache.
C7_DiseaseSwitchTearsDown ==
    [][lastOp' = "setMapDisease" =>
          \A u \in DOMAIN loadedMunicipioLayers :
             /\ loadedMunicipioLayers[u] \notin municipioLayersOnMap'
             /\ u \notin DOMAIN loadedMunicipioLayers'
             /\ u \notin DOMAIN municipioAlertCache']_vars

\* setMapDisease has torn down a layer at zoom >= 6 while another unit
\* keeps data in the cache
C7_Witness ==
    /\ lastOp = "setMapDisease"
    /\ zoom >= MUNICIPIO_ZOOM_THRESHOLD
    /\ removed # {}
    /\ \A l \in removed : l.uf \notin DOMAIN municipioAlertCache
    /\ municipioAlertCache # EmptyObject

\* C8 (as claimed): when setMapDisease(d) has changed the disease, no entry
\* of municipioAlertCache holds data fetched under the previous disease.
C8_CacheInvalidatedOnSwitch ==
    [][(lastOp' = "setMapDisease" /\ currentDisease' # currentDisease) =>
          \A u \in DOMAIN municipioAlertCache' :
             municipioAlertCache'[u].disease # currentDisease]_vars

\* C9: setMapDisease(d) at zoom >= 6 initiates, before it returns, a load
\* with disease d for every curated visible unit that was loaded; at
\* zoom < 6 it initiates no fetch.
C9_LazyReload ==
    [][lastOp' = "setMapDisease" =>
          IF zoom >= MUNICIPIO_ZOOM_THRESHOLD
          THEN \A u \in DOMAIN loadedMunicipioLayers \cap Curated :
                  Includes(getVisibleUFs(geoLayer, viewport), u) =>
                     /\ Count(fetches', GeometryFetch(u)) = 1
                     /\ Count(fetches', AlertsFetch(u, currentDisease')) = 1
                     /\ \E i \in 1..Len(inFlight') :
                           inFlight'[i] = [uf |-> u,
                                           disease |-> currentDisease']
                     /\ u \in loadingStates'
          ELSE fetches' = <<>>]_vars

\* setMapDisease has torn down a layer at zoom >= 6 and initiated its reload
C9_Witness ==
    /\ lastOp = "setMapDisease"
    /\ zoom >= MUNICIPIO_ZOOM_THRESHOLD
    /\ \E l \in removed :
          /\ l.disease # currentDisease
          /\ Count(fetches, AlertsFetch(l.uf, currentDisease)) = 1

\* C10: a unit without an entry in MAJOR_CITIES_BY_UF is never in
\* loadingStates, never has a load in flight and never has a layer.
C10_UncuratedNeverLoads ==
    /\ loadingStates \subseteq Curated
    /\ DOMAIN loadedMunicipioLayers \subseteq Curated
    /\ \A i \in 1..Len(inFlight) : inFlight[i].uf \in Curated
    /\ \A l \in municipioLayersOnMap : l.uf \in Curated

\* an evaluation at zoom >= 6 has seen a visible unit of the national
\* enumeration that has no entry in the table
C10_Witness ==
    /\ lastOp = "handleZoomChange"
    /\ zoom >= MUNICIPIO_ZOOM_THRESHOLD
    /\ \E i \in 1..Len(getVisibleUFs(geoLayer, viewport)) :
          getVisibleUFs(geoLayer, viewport)[i] \notin Curated

\* C11: a unit is in loadingStates from the moment its fetches are issued
\* until its load settles, and if every load settles, a unit that is in
\* loadingStates eventually is not.
C11_LoadingEntriesAreTransient ==
    /\ [](/\ \A i \in 1..Len(inFlight) : inFlight[i].uf \in loadingStates
          /\ \A u \in loadingStates : LoadsInFlight(inFlight, u) # {})
    /\ \A u \in Curated : (u \in loadingStates) ~> (u \notin loadingStates)

\* one load has failed, another has succeeded, and nothing is loading
C11_Witness ==
    /\ lastOp = "loadFailed"
    /\ loadingStates = {}
    /\ inFlight = <<>>
    /\ DOMAIN loadedMunicipioLayers # {}

\* C12: when a load fails, its unit is afterwards neither loading nor loaded
\* and no layer has been added to the map, the failure issues no fetch, and
\* an evaluation at zoom >= 6 that follows with the unit visible initiates a
\* load for it.
C12_FailedUnitIsEligibleAgain ==
    [][/\ lastOp' = "loadFailed" =>
             /\ settled' \in Curated
             /\ settled' \notin loadingStates'
             /\ settled' \notin DOMAIN loadedMunicipioLayers'
             /\ municipioLayersOnMap' = municipioLayersOnMap
             /\ LoadsInFlight(inFlight', settled') = {}
             /\ fetches' = <<>>
       /\ (/\ lastOp = "loadFailed"
           /\ lastOp' = "handleZoomChange"
           /\ zoom' >= MUNICIPIO_ZOOM_THRESHOLD
           /\ Includes(getVisibleUFs(geoLayer, viewport'), settled)) =>
             /\ Count(fetches', GeometryFetch(settled)) = 1
             /\ Count(fetches', AlertsFetch(settled, currentDisease)) = 1
             /\ settled \in loadingStates']_vars

\* a load has failed at zoom >= 6 and its unit, still visible, is neither
\* loading nor loaded
C12_Witness ==
    /\ lastOp = "loadFailed"
    /\ zoom >= MUNICIPIO_ZOOM_THRESHOLD
    /\ Includes(getVisibleUFs(geoLayer, viewport), settled)
    /\ settled \notin loadingStates
    /\ settled \notin DOMAIN loadedMunicipioLayers

\* the part of the manager's state that belongs to units other than u
OtherUnits(u, loading, loaded, alertCache, onMap, loads) ==
    [loading |-> loading \ {u},
     loaded |-> [v \in DOMAIN loaded \ {u} |-> loaded[v]],
     cache |-> [v \in DOMAIN alertCache \ {u} |-> alertCache[v]],
     onMap |-> {l \in onMap : l.uf # u},
     inFlight |-> SelectSeq(loads, LAMBDA l : l.uf # u)]

\* C13: a failed load changes nothing for any other unit: its loading and
\* loaded status, its layer, its cache entry and its load in flight stay,
\* and when such a load fulfils afterwards the unit becomes loaded.
C13_FailureLeavesOtherUnits ==
    [][/\ lastOp' = "loadFailed" =>
             OtherUnits(settled', loadingStates', loadedMunicipioLayers',
                        municipioAlertCache', municipioLayersOnMap',
                        inFlight')
             = OtherUnits(settled', loadingStates, loadedMunicipioLayers,
                          municipioAlertCache, municipioLayersOnMap, inFlight)
       /\ (lastOp = "loadFailed" /\ lastOp' = "loadDone") =>
             /\ settled' \in DOMAIN loadedMunicipioLayers'
             /\ loadedMunicipioLayers'[settled'] \in municipioLayersOnMap'
             /\ settled' \in DOMAIN municipioAlertCache'
             /\ settled' \notin loadingStates']_vars

\* the load of one unit has failed while the load of another is in flight
C13_Witness ==
    /\ lastOp = "loadFailed"
    /\ settled \notin loadingStates
    /\ \E i \in 1..Len(inFlight) :
          /\ inFlight[i].uf # settled
          /\ inFlight[i].uf \in loadingStates

\* C18 (as claimed): an evaluation at zoom < 6 leaves no entry of
\* municipioAlertCache for a unit whose layer it removed.
C18_ZoomOutInvalidatesCache ==
    [][(lastOp' = "handleZoomChange" /\ zoom' < MUNICIPIO_ZOOM_THRESHOLD) =>
          \A l \in removed' : l.uf \notin DOMAIN municipioAlertCache']_vars

\* C30: a load that completes, in whatever order relative to the loads
\* issued before it, changes nothing for any other unit (loading or loaded
\* status, layer, cache entry, load in flight), and leaves its own unit
\* loaded with a layer of its own on the map and an alert-cache entry of
\* its own.
C30_CompletionOrderIsFree ==
    [][lastOp' = "loadDone" =>
          /\ OtherUnits(settled', loadingStates', loadedMunicipioLayers',
                        municipioAlertCache', municipioLayersOnMap',
                        inFlight')
               = OtherUnits(settled', loadingStates, loadedMunicipioLayers,
                            municipioAlertCache, municipioLayersOnMap,
                            inFlight)
          /\ settled' \in DOMAIN loadedMunicipioLayers'
          /\ settled' \notin loadingStates'
          /\ loadedMunicipioLayers'[settled'].uf = settled'
          /\ loadedMunicipioLayers'[settled'] \in municipioLayersOnMap'
          /\ loadedMunicipioLayers'[settled'] \notin municipioLayersOnMap
          /\ \A v \in DOMAIN loadedMunicipioLayers' \ {settled'} :
                loadedMunicipioLayers'[v] # loadedMunicipioLayers'[settled']
          /\ settled' \in DOMAIN municipioAlertCache'
          /\ municipioAlertCache'[settled'].disease
               = loadedMunicipioLayers'[settled'].disease]_vars

\* unit 33, whose load was issued after that of unit 35, is loaded while
\* unit 35 is still loading
C30_Witness ==
    /\ lastOp = "loadDone"
    /\ settled = 33
    /\ 33 \in DOMAIN loadedMunicipioLayers
    /\ 35 \in loadingStates
    /\ Len(inFlight) = 1
    /\ inFlight[1].uf = 35
    /\ DOMAIN municipioAlertCache = {33}

\* C31 (as claimed): when the last evaluation ran at zoom < 6 and no load
\* is in flight, no municipality layer is on the map.
C31_NoLayerBelowThreshold ==
    (zoom < MUNICIPIO_ZOOM_THRESHOLD /\ inFlight = <<>>) =>
       municipioLayersOnMap = {}

\* the curated units the viewport resolver returns for the current view
VisibleCurated == Range(getVisibleUFs(geoLayer, viewport)) \cap Curated

\* every visible curated unit has a layer built from the current disease
VisibleShowCurrentDisease ==
    \A u \in VisibleCurated :
       /\ u \in DOMAIN loadedMunicipioLayers
       /\ loadedMunicipioLayers[u].disease = currentDisease
       /\ loadedMunicipioLayers[u] \in municipioLayersOnMap

\* C32 (as claimed): after setMapDisease(d) at zoom >= 6, unless a zoom or
\* move event, another disease selection or a failed fetch intervenes, every
\* visible curated unit eventually has a layer built from the data of d,
\* units whose load was in flight at the switch included.
C32_SwitchEventuallyShowsCurrentDisease ==
    \A d \in Diseases :
       (lastOp = "setMapDisease" /\ zoom >= MUNICIPIO_ZOOM_THRESHOLD
          /\ currentDisease = d)
          ~> \/ VisibleShowCurrentDisease
             \/ lastOp \notin {"setMapDisease", "loadDone"}
             \/ currentDisease # d

----------------------------------------------------------------------------
(* Properties of the request cache *)

\* C14: a key whose producer has resolved has a stored result from then on,
\* and a cachedFetch call for a key that has a stored result returns that
\* very object and invokes no producer; two fetchStates() calls in sequence
\* make one network call.
C14_StoredResultIsReturned ==
    [][/\ (apiLast'.op \in {"hit", "miss"} /\ apiLast'.key \in DOMAIN cache) =>
          /\ apiLast'.op = "hit"
          /\ apiLast'.promise = "fulfilled"
          /\ apiLast'.value = cache[apiLast'.key]
          /\ networkCalls' = networkCalls
          /\ producers' = producers
          /\ cache' = cache
       /\ apiLast'.op = "resume" => apiLast'.key \in DOMAIN cache'
       /\ DOMAIN cache \subseteq DOMAIN cache']_vars

\* the second of two fetchStates() calls has returned the stored object
\* after a single network call
C14_Witness ==
    /\ apiLast = [op |-> "hit", key |-> "states", promise |-> "fulfilled",
                  value |-> 1]
    /\ networkCalls = 1
    /\ producers = <<>>

\* C15: when a producer fails, the cache is left as it was and the caller's
\* promise rejects; the next cachedFetch for the key, still without a stored
\* result, invokes its producer.
C15_FailureIsNotCached ==
    [][/\ apiLast'.op = "throw" =>
             /\ cache' = cache
             /\ apiLast'.promise = "rejected"
       /\ (/\ apiLast.op = "throw"
           /\ apiLast'.op \in {"hit", "miss"}
           /\ apiLast'.key = apiLast.key
           /\ apiLast.key \notin DOMAIN cache) =>
             /\ apiLast'.op = "miss"
             /\ networkCalls' = networkCalls + 1
             /\ \E i \in 1..Len(producers') :
                   producers'[i] = [key |-> apiLast.key,
                                    call |-> networkCalls']]_vars

\* after a failed first call, a second call for the key has invoked its
\* producer
C15_Witness ==
    /\ apiLast.op = "miss"
    /\ networkCalls = 2
    /\ cache = EmptyObject
    /\ producers = <<[key |-> apiLast.key, call |-> 2]>>

\* C16 (as claimed): a key that has a stored value keeps that value for the
\* rest of the session.
C16_EntriesAreWriteOnce ==
    [][\A k \in DOMAIN cache :
          k \in DOMAIN cache' /\ cache'[k] = cache[k]]_vars

----------------------------------------------------------------------------
(* Properties of the pure helpers *)

\* C17 (as claimed): two cacheKey calls with the same number of components
\* produce the same key exactly when their components are pairwise equal.
C17_CacheKeyIsInjective ==
    (/\ input.fn = "cacheKey"
     /\ output.done
     /\ Len(input.args[1]) = Len(input.args[2])) =>
       (output.value[1] = output.value[2] <=> input.args[1] = input.args[2])

IsLevel(v) == v.type = "number" /\ v.n \in 1..4

\* C19: getAlertColorHex and getAlertLevel return green, yellow, orange and
\* red for the levels 1..4 and the level-1 (green) encoding for every other
\* number, for null and for undefined.
C19_AlertLevelFallback ==
    /\ (input.fn = "getAlertColorHex" /\ output.done) =>
          output.value =
            IF IsLevel(input.args[1])
            THEN <<"#22c55e", "#eab308", "#f97316", "#ef4444">>[input.args[1].n]
            ELSE "#22c55e"
    /\ (input.fn = "getAlertLevel" /\ output.done) =>
          /\ output.value.class =
               IF IsLevel(input.args[1])
               THEN <<"badge--green", "badge--yellow", "badge--orange",
                      "badge--red">>[input.args[1].n]
               ELSE "badge--green"
          /\ output.value.color =
               IF IsLevel(input.args[1])
               THEN <<"var(--alert-green)", "var(--alert-yellow)",
                      "var(--alert-orange)", "var(--alert-red)">>[input.args[1].n]
               ELSE "var(--alert-green)"

\* getAlertColorHex has returned green for level 5
C19_Witness ==
    /\ input.fn = "getAlertColorHex"
    /\ input.args[1] = Num(5)
    /\ output.done
    /\ output.value = "#22c55e"

\* C20: for every percent in [0,100], in tenths, getSanitationOpacity is
\* 0.35 + 0.4 * percent / 100 (3500 + 4 * tenths, in 1/10000), lies within
\* [0.35, 0.75], is 0.35 at 0 and 0.75 at 100, and is no smaller than the
\* opacity of any smaller percent.
C20_OpacityIsLinearAndBounded ==
    (input.fn = "getSanitationOpacity" /\ output.done) =>
       LET tenths == input.args[1] IN
       /\ output.value = 3500 + 4 * tenths
       /\ output.value >= 3500
       /\ output.value <= 7500
       /\ tenths = 0 => output.value = 3500
       /\ tenths = 1000 => output.value = 7500
       /\ \A q \in Percents :
             q <= tenths => getSanitationOpacity(q) <= output.value

\* getSanitationOpacity has returned 0.75 for 100 percent
C20_Witness ==
    /\ input.fn = "getSanitationOpacity"
    /\ input.args[1] = 1000
    /\ output.done
    /\ output.value = 7500

\* the bands of the sanitation scale: lowest percent of the band, the first
\* percent above it (in tenths), its colour
Bands ==
    << [from |-> 800, below |-> 1001, colour |-> "#06b6d4"],
       [from |-> 600, below |-> 800, colour |-> "#22d3ee"],
       [from |-> 400, below |-> 600, colour |-> "#67e8f9"],
       [from |-> 200, below |-> 400, colour |-> "#f59e0b"],
       [from |-> 0, below |-> 200, colour |-> "#ef4444"] >>

\* C21: getSanitationColor maps every percent in [0,100] to the colour of
\* the one band [from, below) it lies in, the five bands are >=80, [60,80),
\* [40,60), [20,40), <20, and no two bands share a colour.
C21_FiveHalfOpenBands ==
    (input.fn = "getSanitationColor" /\ output.done) =>
       LET tenths == input.args[1]
           mine == {k \in 1..5 : Bands[k].from <= tenths
                                 /\ tenths < Bands[k].below}
       IN /\ Cardinality(mine) = 1
          /\ \A k \in mine : output.value = Bands[k].colour
          /\ \A j, k \in 1..5 : j # k => Bands[j].colour # Bands[k].colour

\* getSanitationColor has put the boundary value 60 in the band [60,80)
C21_Witness ==
    /\ input.fn = "getSanitationColor"
    /\ input.args[1] = 600
    /\ output.done
    /\ output.value = "#22d3ee"

IsSortedBySE(series) ==
    \A i, j \in 1..Len(series) : i < j => series[i].SE <= series[j].SE

SameRecords(a, b) ==
    /\ Len(a) = Len(b)
    /\ \A x \in Range(a) \cup Range(b) : Count(a, x) = Count(b, x)

\* C22: the series fetchDiseaseData returns, fetched or served from the
\* cache, is ascending by SE and holds exactly the records of the upstream
\* response, each as often as the response did.
C22_SeriesSortedAndComplete ==
    (input.fn = "fetchDiseaseData" /\ output.done) =>
       /\ IsSortedBySE(output.value.fetched)
       /\ SameRecords(output.value.fetched, input.args[1])
       /\ IsSortedBySE(output.value.cached)
       /\ SameRecords(output.value.cached, input.args[1])

\* a response that came out of order, with week 202503 missing, has been
\* returned in order without a record for that week
C22_Witness ==
    /\ input.fn = "fetchDiseaseData"
    /\ output.done
    /\ Len(input.args[1]) = 3
    /\ input.args[1][1].SE = 202504
    /\ input.args[1][2].SE = 202501
    /\ input.args[1][3].SE = 202502
    /\ output.value.cached[3].SE = 202504

\* C23: getVisibleUFs returns the codes of exactly the drawn features that
\* have a bounding box, whose box intersects the viewport and whose code is
\* in UF_IDS, and nothing when there is no state layer.
C23_VisibleUnitsAreKnownAndInView ==
    (input.fn = "getVisibleUFs" /\ output.done) =>
       Range(output.value) =
         IF input.args[1] = NoLayer THEN {}
         ELSE {Number(BrazilGeoJSON[i].codarea) :
                 i \in {j \in 1..Len(BrazilGeoJSON) :
                          /\ BrazilGeoJSON[j].bounds = "ok"
                          /\ Intersects(input.args[2], BrazilGeoJSON[j].box)
                          /\ \E k \in 1..Len(UF_IDS) :
                                UF_IDS[k] = Number(BrazilGeoJSON[j].codarea)}}

\* over the whole country the units 35, 33 and 11 are returned: the unknown
\* code, the feature without getBounds, the one whose getBounds throws and
\* the non-numeric code are left out
C23_Witness ==
    /\ input.fn = "getVisibleUFs"
    /\ input.args[1] # NoLayer
    /\ input.args[2] = WholeCountry
    /\ output.done
    /\ Range(output.value) = {35, 33, 11}

\* the opacity the data of a unit gives it, before any dimming
DataOpacity(mapLayer, capitalData, codarea) ==
    LET ufAbbr == getUFAbbreviation(Number(codarea))
    IN IF mapLayer = "disease"
       THEN IF \E i \in 1..Len(capitalData) :
                  capitalData[i].uf = ufAbbr /\ capitalData[i].latest.present
            THEN 5500 ELSE 6000
       ELSE IF ufAbbr \in DOMAIN getSanitationData
            THEN 3500 + 4 * getSanitationData[ufAbbr][mapLayer]
            ELSE 6000

\* the unit has a row in the sanitation table, but the row has no value
\* for the active layer
MetricMissing(mapLayer, codarea) ==
    LET ufAbbr == getUFAbbreviation(Number(codarea))
    IN /\ mapLayer # "disease"
       /\ ufAbbr \in DOMAIN getSanitationData
       /\ mapLayer \notin DOMAIN getSanitationData[ufAbbr]

\* C24: the fill opacity of a state is 0.1 at zoom >= 6 whatever else
\* holds; below that it is 0.15 for a unit outside an active region filter;
\* otherwise it is the opacity the unit has without any dimming, which is
\* 0.55 with a latest alert record, 0.35 + 0.4 * percent / 100 with a
\* sanitation value and 0.6 without a record; and the fill colour is the
\* same under every region filter and zoom.
C24_OpacityPrecedence ==
    (input.fn = "stateStyle" /\ output.done) =>
       LET mapLayer == input.args[1]
           capitalData == CapitalDataset(input.args[2])
           codarea == input.args[3]
           region == input.args[4]
           z == input.args[5]
           outside == /\ region # "all"
                      /\ getRegionForUF(getUFAbbreviation(Number(codarea)))
                           # region
           undimmed == stateStyle(mapLayer, capitalData, codarea, "all",
                                  InitialZoom).fillOpacity
       IN /\ output.value.fillOpacity =
               IF z >= 6 THEN 1000
               ELSE IF outside THEN 1500
               ELSE undimmed
          /\ ~MetricMissing(mapLayer, codarea) =>
                undimmed = DataOpacity(mapLayer, capitalData, codarea)
          /\ \A r \in Regions, y \in Zooms :
                stateStyle(mapLayer, capitalData, codarea, r, y).fillColor
                  = output.value.fillColor

\* São Paulo, with sanitation data and outside the active region filter, has
\* been given the zoom-dimmed opacity at zoom 6
C24_Witness ==
    /\ input.fn = "stateStyle"
    /\ input.args[1] = "coletaEsgoto"
    /\ input.args[3] = <<3, 5>>
    /\ input.args[4] = "norte"
    /\ input.args[5] = 6
    /\ output.done
    /\ output.value.fillOpacity = 1000

\* the unit has no data for the active layer
DataMissing(mapLayer, capitalData, codarea) ==
    LET ufAbbr == getUFAbbreviation(Number(codarea))
    IN IF mapLayer = "disease"
       THEN ~\E i \in 1..Len(capitalData) :
               capitalData[i].uf = ufAbbr /\ capitalData[i].latest.present
       ELSE \/ ufAbbr \notin DOMAIN getSanitationData
            \/ mapLayer \notin DOMAIN getSanitationData[ufAbbr]

C26_MunicipalityFill ==
    (input.fn = "municipioStyle" /\ output.done) =>
       IF input.args[1].present
       THEN /\ output.value.fillColor = getAlertColorHex(input.args[1].nivel)
            /\ output.value.fillOpacity = 6000
       ELSE /\ output.value.fillColor = "rgba(30, 41, 59, 0.4)"
            /\ \A a \in Alerts :
                  a.present =>
                    /\ output.value.fillOpacity < municipioStyle(a).fillOpacity
                    /\ municipioHoverOpacity(input.args[1])
                         < municipioStyle(a).fillOpacity
                    /\ municipioHoverOpacity(input.args[1])
                         < municipioHoverOpacity(a)

\* a municipality without a record has been given the neutral fill
C26_Witness ==
    /\ input.fn = "municipioStyle"
    /\ ~input.args[1].present
    /\ output.done
    /\ output.value.fillOpacity = 2500

\* C35: fetchNationalOverview fulfils whatever the feed did for each
\* capital, with one entry per capital of the table in the table's order; a
\* capital whose fetch failed or returned no record has data = [] and
\* latest = null, every other capital has its records in ascending week
\* order and latest is the record of the highest week; a second call for
\* the disease is served the stored list and runs no producer, so it
\* fetches for no capital, the failed ones included.
C35_OverviewHasEveryCapital ==
    (input.fn = "fetchNationalOverview" /\ output.done) =>
       LET outcomes == OverviewOutcomes(input.args[2], input.args[3])
           entries == output.value.first.entries
       IN /\ output.value.first.promise = "fulfilled"
          /\ Len(entries) = Len(capitals)
          /\ \A i \in 1..Len(capitals) :
                /\ i \in DOMAIN entries
                /\ entries[i].uf = capitals[i].uf
                /\ entries[i].geocode = capitals[i].geocode
                /\ IF ~outcomes[i].ok \/ outcomes[i].response = <<>>
                   THEN /\ entries[i].data = <<>>
                        /\ ~entries[i].latest.present
                   ELSE /\ SameRecords(entries[i].data, outcomes[i].response)
                        /\ IsSortedBySE(entries[i].data)
                        /\ entries[i].latest.present
                        /\ entries[i].latest.record
                             \in Range(outcomes[i].response)
                        /\ \A r \in Range(outcomes[i].response) :
                              r.SE <= entries[i].latest.record.SE
          /\ output.value.second.op = "hit"
          /\ output.value.second.promise = "fulfilled"
          /\ output.value.second.object = output.value.first.object
          /\ output.value.producerRuns = 1
          /\ output.value.pending = 0

\* the feed failed for São Paulo and answered Rio de Janeiro with no
\* record: both are in the list with no latest record, and the second
\* call was served from the cache
C35_Witness ==
    /\ input.fn = "fetchNationalOverview"
    /\ output.done
    /\ input.args[2] = FeedFailure
    /\ input.args[3] = FeedAnswer(<<>>)
    /\ Len(output.value.first.entries) = 27
    /\ output.value.first.entries[1].uf = "SP"
    /\ ~output.value.first.entries[1].latest.present
    /\ ~output.value.first.entries[2].latest.present
    /\ output.value.first.entries[3].latest.record.SE = 202501
    /\ output.value.second.op = "hit"

\* C36 (as claimed): on every day of the year the week window of the
\* national overview is a valid range, 1 <= startEW <= currentEW <= 52, with
\* currentEW = min(ceil(dayOfYear / 7), 52) and startEW = max(1, currentEW - 4),
\* 1 January (dayOfYear = 0) included.
C36_WeekWindowIsValid ==
    (input.fn = "epidemiologicalWeeks" /\ output.done) =>
       /\ output.value.ew_end = currentEW(input.args[1])
       /\ output.value.ew_start = startEW(output.value.ew_end)
       /\ 1 <= output.value.ew_start
       /\ output.value.ew_start <= output.value.ew_end
       /\ output.value.ew_end <= 52

\* the entries of the regions table that list ufAbbr
RegionsListing(ufAbbr) ==
    {k \in 1..Len(regions) : Includes(regions[k].ufs, ufAbbr)}

\* C37: every code of UF_IDS has a non-empty abbreviation that one and only
\* one of the five macro-regions lists, which getRegionForUF returns, a
\* sanitation row with both percentages between 0 and 100, and exactly one
\* capital in the national-overview table; every other code has the
\* abbreviation '' and the region 'all'.
C37_RegionCatalogIsConsistent ==
    (input.fn = "regionCatalog" /\ output.done) =>
       IF Includes(UF_IDS, input.args[1])
       THEN /\ output.value.abbreviation # ""
            /\ Cardinality(RegionsListing(output.value.abbreviation)) = 1
            /\ \A k \in RegionsListing(output.value.abbreviation) :
                  output.value.region = regions[k].region
            /\ output.value.region # "all"
            /\ Len(regions) = 5
            /\ Len(output.value.sanitation) = 1
            /\ \A row \in Range(output.value.sanitation) :
                  /\ row.coletaEsgoto \in 0..(100 * PercentScale)
                  /\ row.tratamentoEsgoto \in 0..(100 * PercentScale)
            /\ Cardinality(output.value.capitals) = 1
       ELSE /\ output.value.abbreviation = ""
            /\ output.value.region = "all"

\* code 53 is the Distrito Federal, in the last macro-region of the table,
\* with Brasília as its capital
C37_Witness ==
    /\ input.fn = "regionCatalog"
    /\ output.done
    /\ input.args[1] = 53
    /\ output.value.abbreviation = "DF"
    /\ output.value.region = "centro-oeste"
    /\ output.value.capitals = {5}
    /\ Len(output.value.sanitation) = 1

\* code 34 is no state: no abbreviation, region 'all'
C37_WitnessUnknownCode ==
    /\ input.fn = "regionCatalog"
    /\ output.done
    /\ input.args[1] = 34
    /\ output.value.abbreviation = ""
    /\ output.value.region = "all"

----------------------------------------------------------------------------
(* Properties of the state overlay *)

\* C27 (as claimed): every setMapLayer and every updateMapColors call starts
\* a rebuild of the state overlay, whether or not an overlay exists yet.
C27_EveryChangeRebuilds ==
    [][lastOp' \in {"setMapLayer", "updateMapColors"} =>
          /\ fetches' = <<NationalFetch>>
          /\ Len(geoInFlight') = Len(geoInFlight) + 1]_vars

\* C28 (as claimed): when a load of the state overlay fails, the loading
\* element shows the error and is visible, and geoLayer and the overlay on
\* the map are as before.
C28_FailureShowsVisibleError ==
    [][lastOp' = "geoFailed" =>
          /\ mapLoading'.content = "error"
          /\ ~mapLoading'.hidden
          /\ geoLayer' = geoLayer
          /\ stateLayersOnMap' = stateLayersOnMap]_vars

\* C33 (as claimed): once every overlapping loadGeoJSON call has finished,
\* none of them with an error, the overlay on the map is the one built from
\* the capital data of the most recent call, whatever the order in which the
\* geometry fetches resolved.
C33_OverlayFromMostRecentCall ==
    (geoInFlight = <<>> /\ geoLayer # NoLayer /\ mapLoading.content # "error")
       => geoLayer.capitalData = lastCapitalData

\* C34: the state overlays on the map are exactly the one geoLayer refers
\* to, none before the first overlay is built and one from then on, under
\* every interleaving of loadGeoJSON, setMapLayer and updateMapColors calls.
C34_OneOverlayOnMap ==
    stateLayersOnMap = IF geoLayer = NoLayer THEN {} ELSE {geoLayer}

\* two calls have both built an overlay, the older call last, and the map
\* holds the later overlay alone
C34_Witness ==
    /\ lastOp = "geoDone"
    /\ geoInFlight = <<>>
    /\ mapLoading.content = "spinner"
    /\ geoLayer.capitalData # lastCapitalData
    /\ geoLayer.mapLayer = "coletaEsgoto"
    /\ stateLayersOnMap = {geoLayer}

----------------------------------------------------------------------------
(* Properties of the location search *)

\* C29 (as claimed): when the load of the search index fails, the panel
\* shows an error, and the next search that runs without an index starts
\* the load again.
C29_SearchFailureIsShownAndRetried ==
    [][/\ search'.last = "loadFailed" => search'.panel = "error"
       /\ (search'.last \in {"loadStarted", "searched", "threw"}
             /\ search.allMunicipios # "array") =>
            search'.loads = Append(search.loads, search.timer.query)]_vars

\* C39 (as claimed): while the trimmed input has fewer than 2 characters
\* the result panel is hidden, and whenever the panel is filled it is filled
\* for the query of the most recent input event, also when the search that
\* fills it had to wait for the municipality index.
C39_PanelFollowsInput ==
    /\ Len(search.value) < 2 => search.panel = "hidden"
    /\ (search.last \in {"searched", "loaded"} /\ search.panel # "hidden") =>
          search.shown = search.value

----------------------------------------------------------------------------
(* Properties of the tracker selectors *)

\* C38 (as claimed): once every pending municipality-list fetch has
\* settled, a city selector that holds municipalities holds those of the
\* state selected now, also when the state was changed during a fetch and
\* the lists arrived out of order.
C38_CitiesOfSelectedState ==
    (tracker.pending = <<>> /\ tracker.state # NoUnit
       /\ tracker.city.content = "options") =>
          tracker.city.uf = tracker.state

====
